---- MODULE Spec2Model ----
(***************************************************************************)
(* Acquisition - cache - reconciliation pipeline of PG_Anlize_Sys.         *)
(*                                                                         *)
(* The module holds several specifications over one set of variables, one  *)
(* per component:                                                          *)
(*   SpecCode   code identity helpers (deep_analysis_fetcher.py and the    *)
(*              venue derivations spread over the fetchers)                *)
(*   SpecMinute data_fetcher.fetch_stock_minute_data on one response       *)
(*   SpecFallback  the functions that try one source after another         *)
(*   SpecBars   crud.bulk_upsert_daily_kline called with arbitrary batches *)
(*   SpecPipe   the poll loop (RealtimeDataFetcher), the quote keys of the *)
(*              cache with their expiry, and the reconciliation loop       *)
(*              (PersistenceService); SpecPipeFair adds that time passes   *)
(*   SpecReaders  the poller's pipeline interleaved with the commands of   *)
(*              the readers and the expiry of keys                         *)
(*   SpecSync   one reconciliation tick over arbitrary cached values       *)
(*   SpecStore  the three writers of stock_daily_kline over several days,  *)
(*              round trip by round trip                                   *)
(*   SpecClock  the reconciliation loop from the call of run on, on its    *)
(*              timer against the expiry of the keys; SpecClockFair adds   *)
(*              that time passes and the upsert succeeds again and again   *)
(*   SpecWatch  WatchlistManager over the user_watchlist table and the     *)
(*              Redis set, with restarts and store failures                *)
(*   SpecWatchRunning  one manager that is not constructed again           *)
(*   SpecWatchHealthy  one manager, every call reaching its stores         *)
(*   SpecWatchRace  calls of several managers, store command by command    *)
(* Every specification leaves the variables of the other components at     *)
(* their idle values.                                                      *)
(*                                                                         *)
(* Strings that the code inspects character by character are sequences of  *)
(* one-character strings.                                                  *)
(***************************************************************************)
EXTENDS Integers, Sequences, FiniteSets, TLC

VARIABLES
    \* ---- code identity -------------------------------------------------
    numId,      \* the numeric identifier of the instrument under conversion
    provider,   \* the provider form the raw spelling is written in
    rawCode,    \* the raw spelling handed to get_clean_code
    cleanOut,   \* result of get_clean_code(rawCode)
    backOut,    \* result of the provider's to_*_code applied to cleanOut
    venueOut,   \* venue derived from numId by each code path
    codePc,     \* "start" -> "clean" -> "converted" -> "done"
    \* ---- intraday bars (fetch_stock_minute_data) --------------------------
    minuteResp, \* the provider's answer to the minute query
    minuteRows, \* the rows of the DataFrame returned
    minutePc,   \* "start" -> "done"
    \* ---- source fallback ---------------------------------------------------
    fbFunc,     \* the function called
    fbIn,       \* what each source does when it is asked
    fbCalls,    \* the sources asked, in the order they were asked
    fbResult,   \* what the function handed to its caller
    fbPc,       \* "start" -> "done"
    \* ---- durable store: stock_daily_kline ----------------------------------
    bars,          \* the rows of the table
    latestUpsert,  \* history: per key, the values of the latest committed upsert
    overwritten,   \* history: keys for which a committed upsert replaced other values
    upsertCall,    \* history: the last bulk_upsert_daily_kline call and its outcome
    stocks,        \* the codes of the rows of the table stocks
    storeJob,      \* the daily sync and the historical save in flight
    \* ---- cache: quote keys, poller, reconciler ------------------------------
    cache,      \* quote:<code> -> entry (value and remaining time to live)
    age,        \* history: time since the key was last written, capped
    polling,    \* the poll loop is running
    reconciling,\* the reconciliation loop is running
    syncKeys,   \* the reconciliation tick in progress: the keys enumerated and, after the mget, the values read
    pollLog,    \* history: what the chunks of the last poll cycle did
    syncLog,    \* history: what the last reconciliation tick read and wrote
    sinceSync,  \* clock ticks since the last reconciliation tick ended, when the loop is timed
    \* ---- watchlist ------------------------------------------------------------
    wlDb,       \* user_watchlist table: the codes stored
    wlCache,    \* the Redis set user:watchlist
    acked,      \* history: codes whose add_stock returned True, not removed since
    wlLast,     \* history: the last watchlist call and what it returned
    wlFresh,    \* whether Redis lost the set and a manager was constructed, with no call since
    wlProc      \* per session, the watchlist call in flight

codeVars   == <<numId, provider, rawCode, cleanOut, backOut, venueOut, codePc>>
minuteVars == <<minuteResp, minuteRows, minutePc>>
fbVars     == <<fbFunc, fbIn, fbCalls, fbResult, fbPc>>
barsHist   == <<latestUpsert, overwritten, upsertCall, stocks, storeJob>>
pipeVars   == <<cache, age, polling, reconciling, syncKeys, pollLog, syncLog, sinceSync>>
watchVars  == <<wlDb, wlCache, acked, wlLast, wlFresh, wlProc>>

vars == <<codeVars, minuteVars, fbVars, bars, barsHist, pipeVars, watchVars>>

None == "none"
\* the same for places that otherwise hold a record
NoValue == [none |-> TRUE]

\* The idle values: what a specification leaves the other components at.
CodeIdle ==
    /\ numId = <<>>
    /\ provider = None
    /\ rawCode = <<>>
    /\ cleanOut = <<>>
    /\ backOut = <<>>
    /\ venueOut = None
    /\ codePc = "idle"

MinuteIdle ==
    /\ minuteResp = None
    /\ minuteRows = <<>>
    /\ minutePc = "idle"

FallbackIdle ==
    /\ fbFunc = None
    /\ fbIn = None
    /\ fbCalls = <<>>
    /\ fbResult = None
    /\ fbPc = "idle"

BarsIdle ==
    /\ bars = {}
    /\ latestUpsert = None
    /\ overwritten = {}
    /\ upsertCall = NoValue
    /\ stocks = {}
    /\ storeJob = NoValue

PipeIdle ==
    /\ cache = None
    /\ age = None
    /\ polling = FALSE
    /\ reconciling = FALSE
    /\ syncKeys = None
    /\ pollLog = None
    /\ syncLog = None
    /\ sinceSync = 0

WatchIdle ==
    /\ wlDb = {}
    /\ wlCache = {}
    /\ acked = {}
    /\ wlLast = NoValue
    /\ wlFresh = "no"
    /\ wlProc = NoValue

(***************************************************************************)
(* Bounds                                                                  *)
(***************************************************************************)
\* Length of the numeric identifiers enumerated (real identifiers have six
\* digits; the helpers look at the leading character and at substrings only).
IdLen == 2
\* Longest list of minute records in one provider response.
MaxRecords == 3
\* Most records one source returns in the fallback functions.
MaxRecs == 2
\* Days update_stock_list_to_db looks back for a trading day (range(30) in
\* the source, scaled down).
LookbackDays == 2
\* Most rows in one batch handed to bulk_upsert_daily_kline.
MaxBatch == 2
\* Codes per request of the poller (BATCH_SIZE = 80 in the source, scaled down
\* with the instrument universe).
BatchSize == 1
\* Expiry of a quote key, in clock ticks (60 seconds in the source).
QuoteTTL == 2
\* Calendar days the bars table is followed over.
MaxDay == 2
\* Sleep of the reconciliation loop between two ticks, in clock ticks (60
\* seconds by default in the source, the same as the expiry of a key).
SyncInterval == 2
\* Poll cycles followed while readers interleave with the poller.
MaxCycles == 2
\* Days the watchlist daily sync looks back from the day it runs on
\* (timedelta(days=5) in the source, scaled down).
SyncWindowDays == 1

(***************************************************************************)
(* Character sequences                                                     *)
(***************************************************************************)
Digits == {"0", "3", "4", "6", "8", "9"}

\* str.lower() on the characters that occur in code spellings
LowerChar(c) ==
    CASE c = "S" -> "s"
      [] c = "H" -> "h"
      [] c = "Z" -> "z"
      [] c = "B" -> "b"
      [] c = "J" -> "j"
      [] OTHER   -> c

UpperChar(c) ==
    CASE c = "s" -> "S"
      [] c = "h" -> "H"
      [] c = "z" -> "Z"
      [] c = "b" -> "B"
      [] c = "j" -> "J"
      [] OTHER   -> c

Lower(s) == [i \in 1..Len(s) |-> LowerChar(s[i])]
Upper(s) == [i \in 1..Len(s) |-> UpperChar(s[i])]

StartsWith(s, p) == Len(s) >= Len(p) /\ SubSeq(s, 1, Len(p)) = p

\* str.replace(pat, ""): every non-overlapping occurrence, leftmost first
RECURSIVE Remove(_, _)
Remove(s, pat) ==
    IF s = <<>> THEN <<>>
    ELSE IF StartsWith(s, pat) THEN Remove(SubSeq(s, Len(pat) + 1, Len(s)), pat)
    ELSE <<Head(s)>> \o Remove(Tail(s), pat)

(***************************************************************************)
(* deep_analysis_fetcher.py: the code format helpers                       *)
(***************************************************************************)
get_clean_code(stock_code) ==
    IF stock_code = <<>> THEN <<>>
    ELSE Remove(Remove(Remove(Lower(stock_code), <<"s", "h">>), <<"s", "z">>), <<".">>)

get_market_type(clean_code) ==
    IF StartsWith(clean_code, <<"6">>) THEN <<"s", "h">>
    ELSE IF StartsWith(clean_code, <<"0">>) \/ StartsWith(clean_code, <<"3">>) THEN <<"s", "z">>
    ELSE IF StartsWith(clean_code, <<"8">>) \/ StartsWith(clean_code, <<"4">>) THEN <<"b", "j">>
    ELSE <<"s", "z">>

to_baostock_code(stock_code) ==
    LET clean == get_clean_code(stock_code)
        mkt   == get_market_type(clean)
    IN  mkt \o <<".">> \o clean

to_tencent_code(stock_code) ==
    LET clean == get_clean_code(stock_code)
        mkt   == get_market_type(clean)
    IN  mkt \o clean

to_eastmoney_web_code(stock_code) ==
    LET clean == get_clean_code(stock_code)
        mkt   == get_market_type(clean)
    IN  Upper(mkt) \o clean

to_eastmoney_secid(stock_code) ==
    LET clean  == get_clean_code(stock_code)
        mkt    == get_market_type(clean)
        prefix == IF mkt = <<"s", "h">> THEN <<"1">> ELSE <<"0">>
    IN  prefix \o <<".">> \o clean

to_eastmoney_code(stock_code) ==
    LET clean == get_clean_code(stock_code)
        mkt   == get_market_type(clean)
    IN  clean \o <<".">> \o Upper(mkt)

\* The provider forms a raw spelling can be written in; "numeric" is the form
\* handed to the akshare calls (symbol=clean_code).
Providers == {"tencent", "eastmoney_web", "baostock", "eastmoney", "numeric"}

toProviderForm(code, p) ==
    CASE p = "tencent"       -> to_tencent_code(code)
      [] p = "eastmoney_web" -> to_eastmoney_web_code(code)
      [] p = "baostock"      -> to_baostock_code(code)
      [] p = "eastmoney"     -> to_eastmoney_code(code)
      [] p = "numeric"       -> get_clean_code(code)

(***************************************************************************)
(* Venue derivations made elsewhere in the pipeline                        *)
(***************************************************************************)
\* data_fetcher.fetch_all_stock_spot_realtime.fetch_chunk: prefix of full_code
fetch_chunk_prefix(raw_code) ==
    IF StartsWith(raw_code, <<"6">>) THEN <<"s", "h">> ELSE <<"s", "z">>

\* scheduler.update_stock_list_job: the market column
update_stock_list_job_market(code) ==
    IF StartsWith(code, <<"6">>) THEN "SSE"
    ELSE IF StartsWith(code, <<"0">>) \/ StartsWith(code, <<"3">>) THEN "SZSE"
    ELSE IF StartsWith(code, <<"4">>) \/ StartsWith(code, <<"8">>) THEN "BSE"
    ELSE "Unknown"

\* realtime_fetcher._refresh_stock_list: prefix, or <<>> when the code is skipped
refresh_stock_list_prefix(code) ==
    IF StartsWith(code, <<"6">>) THEN <<"s", "h">>
    ELSE IF StartsWith(code, <<"0">>) \/ StartsWith(code, <<"3">>) THEN <<"s", "z">>
    ELSE <<>>

\* data_fetcher.fetch_stock_spot_realtime and fetch_stock_minute_data: the
\* provider code built from a stock_code ('.sh' is removed, then '.sz')
tencent_request_code(stock_code) ==
    LET clean_code == Remove(Remove(Lower(stock_code), <<".", "s", "h">>), <<".", "s", "z">>)
    IN  IF StartsWith(clean_code, <<"s", "h">>) \/ StartsWith(clean_code, <<"s", "z">>)
        THEN clean_code
        ELSE IF StartsWith(stock_code, <<"6">>)
             THEN <<"s", "h">> \o clean_code
             ELSE <<"s", "z">> \o clean_code

\* data_fetcher.fetch_stock_daily_kline, lines 284-288: the same with the
\* two removals in the other order ('.sz' is removed, then '.sh')
daily_kline_request_code(stock_code) ==
    LET clean_code == Remove(Remove(Lower(stock_code), <<".", "s", "z">>), <<".", "s", "h">>)
    IN  IF StartsWith(clean_code, <<"s", "h">>) \/ StartsWith(clean_code, <<"s", "z">>)
        THEN clean_code
        ELSE IF StartsWith(stock_code, <<"6">>)
             THEN <<"s", "h">> \o clean_code
             ELSE <<"s", "z">> \o clean_code

(***************************************************************************)
(* The venue table of the specification (section 4.1) and the spelling of  *)
(* an instrument in each provider form: the reference the claims compare   *)
(* the helpers with.                                                       *)
(***************************************************************************)
RECURSIVE SeqsOfLen(_, _)
SeqsOfLen(S, n) ==
    IF n = 0 THEN {<<>>}
    ELSE {<<c>> \o t : c \in S, t \in SeqsOfLen(S, n - 1)}

NumericIds == SeqsOfLen(Digits, IdLen)

TableVenue(id) ==
    CASE id[1] = "6"           -> "A"
      [] id[1] \in {"0", "3"}  -> "B"
      [] id[1] \in {"4", "8"}  -> "C"
      [] OTHER                 -> None

VenuePrefix(v) ==
    CASE v = "A" -> <<"s", "h">>
      [] v = "B" -> <<"s", "z">>
      [] v = "C" -> <<"b", "j">>

Spelling(id, p) ==
    LET pre == VenuePrefix(TableVenue(id))
    IN  CASE p = "tencent"       -> pre \o id
          [] p = "eastmoney_web" -> Upper(pre) \o id
          [] p = "baostock"      -> pre \o <<".">> \o id
          [] p = "eastmoney"     -> id \o <<".">> \o Upper(pre)
          [] p = "numeric"       -> id

\* the venue a prefix stands for, and the venue a market name stands for
VenueOfPrefix(x) ==
    CASE x = <<"s", "h">> -> "A"
      [] x = <<"s", "z">> -> "B"
      [] x = <<"b", "j">> -> "C"
      [] OTHER            -> None

VenueOfMarket(m) ==
    CASE m = "SSE"  -> "A"
      [] m = "SZSE" -> "B"
      [] m = "BSE"  -> "C"
      [] OTHER      -> None

(***************************************************************************)
(* SpecCode: one instrument, one provider form; normalise its spelling,    *)
(* convert it back, derive its venue along every code path.                *)
(***************************************************************************)
InitCode ==
    /\ MinuteIdle /\ FallbackIdle /\ BarsIdle /\ PipeIdle /\ WatchIdle
    /\ numId \in NumericIds
    /\ provider \in Providers
    /\ rawCode = IF TableVenue(numId) = None THEN numId ELSE Spelling(numId, provider)
    /\ cleanOut = <<>>
    /\ backOut = <<>>
    /\ venueOut = None
    /\ codePc = "start"

Normalize ==
    /\ codePc = "start"
    /\ cleanOut' = get_clean_code(rawCode)
    /\ codePc' = "clean"
    /\ UNCHANGED <<numId, provider, rawCode, backOut, venueOut, minuteVars, fbVars, bars, barsHist, pipeVars, watchVars>>

ToProviderForm ==
    /\ codePc = "clean"
    /\ backOut' = toProviderForm(cleanOut, provider)
    /\ codePc' = "converted"
    /\ UNCHANGED <<numId, provider, rawCode, cleanOut, venueOut, minuteVars, fbVars, bars, barsHist, pipeVars, watchVars>>

DeriveVenue ==
    /\ codePc = "converted"
    /\ venueOut' = [ get_market_type |-> VenueOfPrefix(get_market_type(numId)),
                     fetch_chunk     |-> VenueOfPrefix(fetch_chunk_prefix(numId)),
                     scheduler       |-> VenueOfMarket(update_stock_list_job_market(numId)),
                     refresh         |-> VenueOfPrefix(refresh_stock_list_prefix(numId)),
                     tencent_request |-> VenueOfPrefix(SubSeq(tencent_request_code(numId), 1, 2)),
                     daily_kline     |-> VenueOfPrefix(SubSeq(daily_kline_request_code(numId), 1, 2)) ]
    /\ codePc' = "done"
    /\ UNCHANGED <<numId, provider, rawCode, cleanOut, backOut, minuteVars, fbVars, bars, barsHist, pipeVars, watchVars>>

NextCode == Normalize \/ ToProviderForm \/ DeriveVenue

SpecCode == InitCode /\ [][NextCode]_vars

(***************************************************************************)
(* Code identity claims                                                    *)
(***************************************************************************)
\* C6: for every instrument whose leading digit is in the venue table and every
\* provider spelling of it, get_clean_code yields the numeric identifier and
\* the provider's conversion of that result reproduces the spelling exactly.
C6_NormalizeRoundTrip ==
    (codePc \in {"converted", "done"} /\ TableVenue(numId) # None)
        => (cleanOut = numId /\ backOut = rawCode)

\* What does hold: the same statement for the venues A (sh) and B (sz) only.
C6_RoundTripShSz ==
    (codePc \in {"converted", "done"} /\ TableVenue(numId) \in {"A", "B"})
        => (cleanOut = numId /\ backOut = rawCode)

\* C8: the venue of a numeric identifier is the table's venue of its leading
\* digit, and get_market_type, fetch_chunk and update_stock_list_job derive the
\* same venue for the same identifier.
C8_VenueSameOnEveryPath ==
    (codePc = "done" /\ TableVenue(numId) # None)
        => /\ venueOut.get_market_type = TableVenue(numId)
           /\ venueOut.fetch_chunk = venueOut.get_market_type
           /\ venueOut.scheduler = venueOut.get_market_type

\* What does hold: get_market_type alone follows the table.
C8_MarketTypeFollowsTable ==
    (codePc = "done" /\ TableVenue(numId) # None)
        => venueOut.get_market_type = TableVenue(numId)

(***************************************************************************)
(* data_fetcher.fetch_stock_minute_data                                    *)
(*                                                                         *)
(* A field of a record is a token: a number (float() accepts it) or text   *)
(* (float() raises ValueError).  A record is the list of its fields, which *)
(* the code obtains by item.split(' ') when the item is a string and takes *)
(* as it is when the item is a list.                                       *)
(***************************************************************************)
Num(n) == [k |-> "num", v |-> n]
Text   == [k |-> "text"]

IsNum(tok) == tok.k = "num"

\* the fields of one item of minute_data (lines 409-412)
MinuteFields(item) == item.fields

\* a plausible slip: the cumulative volume itself is reported
MinuteVolumeCumulative(cum_vol, prev_vol) == cum_vol * 100

\* volume of one minute, in shares (lines 425 and 434)
MinuteVolume(cum_vol, prev_vol) == (cum_vol - prev_vol) * 100

\* float(fields[1]), float(fields[2]) or the final pd.to_datetime raise
MinuteParseFails(f) == ~IsNum(f[1]) \/ ~IsNum(f[2]) \/ ~IsNum(f[3])

\* the loop of lines 407-435: the rows appended, or raised
RECURSIVE MinuteLoop(_, _)
MinuteLoop(items, prev_vol) ==
    IF items = <<>> THEN [raised |-> FALSE, rows |-> <<>>]
    ELSE LET f == MinuteFields(Head(items)) IN
         IF Len(f) < 3 THEN MinuteLoop(Tail(items), prev_vol)
         ELSE IF MinuteParseFails(f) THEN [raised |-> TRUE, rows |-> <<>>]
         ELSE LET cum_vol == f[3].v
                  rest    == MinuteLoop(Tail(items), cum_vol)
                  row     == [ time   |-> f[1].v,
                               open   |-> f[2].v,
                               high   |-> f[2].v,
                               low    |-> f[2].v,
                               close  |-> f[2].v,
                               volume |-> MinuteVolume(cum_vol, prev_vol) ]
              IN  IF rest.raised THEN rest
                  ELSE [raised |-> FALSE, rows |-> <<row>> \o rest.rows]

\* The DataFrame returned, as the sequence of its rows.  Every failure (the
\* request raising, a status other than 200, the code missing from the
\* payload, a field that does not parse, no record at all) ends in an empty
\* DataFrame.
fetch_stock_minute_data(resp) ==
    IF resp.raises THEN <<>>
    ELSE IF resp.status # 200 THEN <<>>
    ELSE IF ~resp.hasCode THEN <<>>
    ELSE LET r == MinuteLoop(resp.items, 0)
         IN  IF r.raised THEN <<>> ELSE r.rows

CumVols == {0, 1, 3}

WellFormedItems ==
    { [form |-> "str", fields |-> <<Num(t), Num(100), Num(c), Num(100)>>] :
        t \in {930, 931}, c \in CumVols }
    \cup { [form |-> "list", fields |-> <<Num(932), Num(101), Num(2)>>] }

MalformedItems ==
    { [form |-> "str", fields |-> <<Num(930), Num(100)>>],
      [form |-> "str", fields |-> <<Num(930), Text, Num(1), Num(100)>>],
      [form |-> "str", fields |-> <<Num(930), Num(100), Text, Num(100)>>] }

MinuteItems == WellFormedItems \cup MalformedItems

SeqsUpTo(S, n) == UNION { SeqsOfLen(S, k) : k \in 0..n }

MinuteResponses ==
    { [raises |-> FALSE, status |-> st, hasCode |-> hc, items |-> its] :
        st \in {200, 500}, hc \in BOOLEAN, its \in SeqsUpTo(MinuteItems, MaxRecords) }
    \cup { [raises |-> TRUE, status |-> 0, hasCode |-> FALSE, items |-> <<>>] }

InitMinute ==
    /\ CodeIdle /\ FallbackIdle /\ BarsIdle /\ PipeIdle /\ WatchIdle
    /\ minuteResp \in MinuteResponses
    /\ minuteRows = <<>>
    /\ minutePc = "start"

FetchMinute ==
    /\ minutePc = "start"
    /\ minuteRows' = fetch_stock_minute_data(minuteResp)
    /\ minutePc' = "done"
    /\ UNCHANGED <<minuteResp, codeVars, fbVars, bars, barsHist, pipeVars, watchVars>>

NextMinute == FetchMinute

SpecMinute == InitMinute /\ [][NextMinute]_vars

(***************************************************************************)
(* Intraday bar claims                                                     *)
(***************************************************************************)
RECURSIVE SumVolumes(_)
SumVolumes(rows) ==
    IF rows = <<>> THEN 0 ELSE Head(rows).volume + SumVolumes(Tail(rows))

\* a response that was delivered and whose records all have the provider's
\* form "HHMM price cum_volume ..." with numeric fields
MinuteWellFormed(resp) ==
    /\ ~resp.raises /\ resp.status = 200 /\ resp.hasCode
    /\ \A i \in 1..Len(resp.items) : resp.items[i] \in WellFormedItems

CumVolAt(resp, i) == IF i = 0 THEN 0 ELSE resp.items[i].fields[3].v

\* C9: for a delivered response of well-formed records, fetch_stock_minute_data
\* returns one row per record in the provider's order, each row's volume is
\* 100 times the increase of the cumulative volume over the previous record
\* (over 0 for the first), and the volumes sum to 100 times the last
\* cumulative volume.
C9_MinuteVolumeIsDelta ==
    (minutePc = "done" /\ MinuteWellFormed(minuteResp))
        => /\ Len(minuteRows) = Len(minuteResp.items)
           /\ \A i \in 1..Len(minuteRows) :
                /\ minuteRows[i].time = minuteResp.items[i].fields[1].v
                /\ minuteRows[i].close = minuteResp.items[i].fields[2].v
                /\ minuteRows[i].volume
                     = (CumVolAt(minuteResp, i) - CumVolAt(minuteResp, i - 1)) * 100
           /\ SumVolumes(minuteRows)
                = CumVolAt(minuteResp, Len(minuteResp.items)) * 100

\* C9 witness: three records with growing cumulative volume came back as three
\* rows whose second and third volumes are increments.
C9_Witness ==
    /\ minutePc = "done"
    /\ MinuteWellFormed(minuteResp)
    /\ Len(minuteResp.items) = 3
    /\ CumVolAt(minuteResp, 1) = 1
    /\ CumVolAt(minuteResp, 2) = 3
    /\ Len(minuteRows) = 3
    /\ minuteRows[2].volume = 200

\* the records of a response that have at least three fields, all numeric
ParsableRecords(resp) ==
    { i \in 1..Len(resp.items) : resp.items[i] \in WellFormedItems }

\* C14: for a delivered response, a record whose fields do not parse as
\* numbers is dropped and the rows of all the remaining records are returned:
\* fetch_stock_minute_data returns one row per parsable record.
C14_MalformedRecordDropped ==
    (minutePc = "done" /\ ~minuteResp.raises /\ minuteResp.status = 200
        /\ minuteResp.hasCode)
        => Len(minuteRows) = Cardinality(ParsableRecords(minuteResp))

\* what holds instead: a record with fewer than three fields is dropped and
\* the others are returned; one field that does not parse empties the result
C14_ShortRecordDropped ==
    (minutePc = "done" /\ ~minuteResp.raises /\ minuteResp.status = 200
        /\ minuteResp.hasCode)
        => IF \A i \in 1..Len(minuteResp.items) :
                  Len(minuteResp.items[i].fields) < 3
                      \/ minuteResp.items[i] \in WellFormedItems
           THEN Len(minuteRows) = Cardinality(ParsableRecords(minuteResp))
           ELSE minuteRows = <<>>

(***************************************************************************)
(* Source fallback                                                         *)
(*                                                                         *)
(* What a source does when asked:                                          *)
(*   kind "raise"  the library or HTTP call raises                         *)
(*   kind "bad"    the call returns and handling its payload raises after  *)
(*                 n records were handled (resp.json(), a missing column,  *)
(*                 a null field, float() of a field)                       *)
(*   kind "ok"     n records come back (n may be 0), of which latest       *)
(*                 belong to the latest report period                      *)
(* What a function hands to its caller: raised (an exception left the      *)
(* function), or n records taken from source src ("mixed": from both).     *)
(***************************************************************************)
Outcomes ==
    { [kind |-> "raise", n |-> 0, latest |-> 0] }
    \cup { [kind |-> "bad", n |-> k, latest |-> 0] : k \in 0..MaxRecs }
    \cup { [kind |-> "ok", n |-> 0, latest |-> 0] }
    \cup UNION { { [kind |-> "ok", n |-> k, latest |-> l] : l \in 1..k } : k \in 1..MaxRecs }

Returned(calls, src, n) == [calls |-> calls, raised |-> FALSE, src |-> src, n |-> n]
Raised(calls)           == [calls |-> calls, raised |-> TRUE, src |-> None, n |-> 0]

Min(a, b) == IF a <= b THEN a ELSE b

\* default of fetch_stock_news(stock_code, limit=10)
NewsLimit == 10

\* df.tail(60) of fetch_capital_flow_history
FlowTail == 60

\* deep_analysis_fetcher.fetch_stock_news: akshare, then the Eastmoney
\* notices.  Both sources append to the one news_list, which is returned
\* whatever happened: records appended before a source's handling raised stay.
fetch_stock_news(in) ==
    IF in.s1.kind = "ok" /\ in.s1.n > 0
    THEN Returned(<<"akshare">>, "akshare", Min(in.s1.n, NewsLimit))
    ELSE LET n1 == IF in.s1.kind = "bad" THEN Min(in.s1.n, NewsLimit) ELSE 0
             n2 == IF in.s2.kind \in {"ok", "bad"} THEN in.s2.n ELSE 0
         IN  Returned(<<"akshare", "eastmoney">>,
                      IF n1 + n2 = 0 THEN None
                      ELSE IF n2 = 0 THEN "akshare"
                      ELSE IF n1 = 0 THEN "eastmoney"
                      ELSE "mixed",
                      n1 + n2)

\* deep_analysis_fetcher.fetch_top_holders: akshare (the rows of the latest
\* report period), then the Eastmoney web page (the holders of its first
\* entry)
fetch_top_holders(in) ==
    IF in.s1.kind = "ok" /\ in.s1.n > 0
    THEN Returned(<<"akshare">>, "akshare", in.s1.latest)
    ELSE IF in.s2.kind = "ok" /\ in.s2.n > 0
         THEN Returned(<<"akshare", "eastmoney">>, "eastmoney", in.s2.latest)
         ELSE Returned(<<"akshare", "eastmoney">>, None, 0)

\* deep_analysis_fetcher.fetch_capital_flow_history: akshare (the last 60
\* rows), then Eastmoney push2
fetch_capital_flow_history(in) ==
    IF in.s1.kind = "ok" /\ in.s1.n > 0
    THEN Returned(<<"akshare">>, "akshare", Min(in.s1.n, FlowTail))
    ELSE IF in.s2.kind = "ok" /\ in.s2.n > 0
         THEN Returned(<<"akshare", "eastmoney">>, "eastmoney", in.s2.n)
         ELSE Returned(<<"akshare", "eastmoney">>, None, 0)

\* data_fetcher.update_stock_list_to_db, lines 28-45: the look-back loop over
\* bs.query_all_stock.  "rows": a day with data was found; "none": no day had
\* data; "raise": a query raised (nothing in the function catches it).
RECURSIVE BaostockLookback(_, _)
BaostockLookback(queries, i) ==
    IF i > LookbackDays THEN "none"
    ELSE CASE queries[i] = "raise" -> "raise"
           [] queries[i] = "rows"  -> "rows"
           [] OTHER                -> BaostockLookback(queries, i + 1)

\* data_fetcher.update_stock_list_to_db: Baostock, then the local CSV file.
\* bs.login(), bs.query_all_stock() and pd.read_csv() are called outside any
\* try block; only the database write (step 3) is guarded.
update_stock_list_to_db(in) ==
    IF in.login = "raise" THEN Raised(<<"baostock">>)
    ELSE LET got == IF in.login = "ok" THEN BaostockLookback(in.queries, 1) ELSE "none" IN
         IF got = "raise" THEN Raised(<<"baostock">>)
         ELSE IF got = "rows" THEN Returned(<<"baostock">>, "baostock", 1)
         ELSE IF ~in.csvExists THEN Returned(<<"baostock", "csv">>, None, 0)
         ELSE CASE in.csv = "raise" -> Raised(<<"baostock", "csv">>)
                [] in.csv = "rows"  -> Returned(<<"baostock", "csv">>, "csv", 1)
                [] OTHER            -> Returned(<<"baostock", "csv">>, None, 0)

\* the code the row of a source carries: Baostock's spelling of an instrument
\* of Shanghai, and the local file's of one of Shenzhen
SourceRowCode(src) ==
    IF src = "baostock" THEN Spelling(<<"6", "0", "0", "0", "0", "1">>, "baostock")
    ELSE Spelling(<<"0", "0", "0", "0", "0", "1">>, "baostock")

\* update_stock_list_to_db, line 70: raw_code.replace('.', '')
stock_list_code(raw_code) == Remove(raw_code, <<".">>)

\* the string the characters of a code spell
CodeText(code) ==
    CASE code = <<"s", "h", "6", "0", "0", "0", "0", "1">> -> "sh600001"
      [] code = <<"s", "z", "0", "0", "0", "0", "0", "1">> -> "sz000001"

\* crud.bulk_save_stocks: insert, on conflict of the code update name and
\* market; a failure is logged and rolled back, nothing is raised
bulk_save_stocks(table, codes, dbOk) == IF dbOk THEN table \cup codes ELSE table

TwoSourceFuncs == {"fetch_stock_news", "fetch_top_holders", "fetch_capital_flow_history"}

TwoSourceInputs == { [s1 |-> a, s2 |-> b] : a \in Outcomes, b \in Outcomes }

UpdateInputs ==
    { [login |-> l, queries |-> q, csvExists |-> e, csv |-> c] :
        l \in {"raise", "err", "ok"},
        q \in SeqsOfLen({"raise", "err", "empty", "rows"}, LookbackDays),
        e \in BOOLEAN,
        c \in {"raise", "empty", "rows"} }

InitFallback ==
    /\ CodeIdle /\ MinuteIdle /\ BarsIdle /\ PipeIdle /\ WatchIdle
    /\ \/ fbFunc \in TwoSourceFuncs /\ fbIn \in TwoSourceInputs
       \/ fbFunc = "update_stock_list_to_db" /\ fbIn \in UpdateInputs
    /\ fbCalls = <<>>
    /\ fbResult = None
    /\ fbPc = "start"

FbReturn(r) ==
    /\ fbCalls' = r.calls
    /\ fbResult' = [raised |-> r.raised, src |-> r.src, n |-> r.n]
    /\ fbPc' = "done"
    /\ UNCHANGED <<fbFunc, fbIn, codeVars, minuteVars, bars, latestUpsert,
                   overwritten, upsertCall, storeJob, pipeVars, watchVars>>

FetchStockNews ==
    /\ fbPc = "start" /\ fbFunc = "fetch_stock_news"
    /\ FbReturn(fetch_stock_news(fbIn))
    /\ UNCHANGED stocks

FetchTopHolders ==
    /\ fbPc = "start" /\ fbFunc = "fetch_top_holders"
    /\ FbReturn(fetch_top_holders(fbIn))
    /\ UNCHANGED stocks

FetchCapitalFlowHistory ==
    /\ fbPc = "start" /\ fbFunc = "fetch_capital_flow_history"
    /\ FbReturn(fetch_capital_flow_history(fbIn))
    /\ UNCHANGED stocks

\* update_stock_list_to_db with its step 3 (lines 61-96): the rows obtained are
\* written to the table stocks under their codes without the dot.  dbOk: the
\* database executes and commits the statement; the function returns the
\* same either way.
UpdateStockListToDb(dbOk) ==
    LET r == update_stock_list_to_db(fbIn)
        stocks_data == IF r.raised \/ r.src = None THEN {}
                       ELSE { CodeText(stock_list_code(SourceRowCode(r.src))) }
    IN
    /\ fbPc = "start" /\ fbFunc = "update_stock_list_to_db"
    /\ FbReturn(r)
    /\ stocks' = bulk_save_stocks(stocks, stocks_data, dbOk)

NextFallback ==
    \/ FetchStockNews
    \/ FetchTopHolders
    \/ FetchCapitalFlowHistory
    \/ \E dbOk \in BOOLEAN : UpdateStockListToDb(dbOk)

SpecFallback == InitFallback /\ [][NextFallback]_vars

(***************************************************************************)
(* Fallback claims                                                         *)
(***************************************************************************)
\* the sources of a capability in priority order
SourcesOf(f) ==
    IF f = "update_stock_list_to_db" THEN <<"baostock", "csv">>
    ELSE <<"akshare", "eastmoney">>

\* Baostock yields a non-empty success: login succeeds and the first day that
\* neither errors nor is empty has rows
RECURSIVE BaostockYields(_, _)
BaostockYields(q, i) ==
    /\ i <= Len(q)
    /\ \/ q[i] = "rows"
       \/ q[i] \in {"err", "empty"} /\ BaostockYields(q, i + 1)

FirstYields(f, in) ==
    IF f = "update_stock_list_to_db"
    THEN in.login = "ok" /\ BaostockYields(in.queries, 1)
    ELSE in.s1.kind = "ok" /\ in.s1.n > 0

SecondYields(f, in) ==
    IF f = "update_stock_list_to_db"
    THEN in.csvExists /\ in.csv = "rows"
    ELSE in.s2.kind = "ok" /\ in.s2.n > 0

\* C5: the sources are asked in priority order; a first source that yields a
\* non-empty success is the only one asked and its records are returned; a
\* first source that errors or returns nothing makes the second one be asked,
\* and when the second yields records they are returned and no failure of the
\* first reaches the caller.
C5_FirstNonEmptySourceWins ==
    fbPc = "done" =>
        LET src == SourcesOf(fbFunc) IN
        /\ fbCalls \in {<<src[1]>>, src}
        /\ FirstYields(fbFunc, fbIn)
             => (fbCalls = <<src[1]>> /\ ~fbResult.raised /\ fbResult.src = src[1])
        /\ ~FirstYields(fbFunc, fbIn)
             => /\ fbCalls = src
                /\ SecondYields(fbFunc, fbIn)
                     => (~fbResult.raised /\ fbResult.src = src[2] /\ fbResult.n > 0)

\* What does hold: C5 for the three functions of deep_analysis_fetcher.py,
\* except that fetch_stock_news keeps the records its first source had
\* appended before the handling raised and returns them with the second's.
C5_HoldsInDeepAnalysis ==
    ( /\ fbFunc \in TwoSourceFuncs
      /\ ~(fbFunc = "fetch_stock_news" /\ fbIn.s1.kind = "bad" /\ fbIn.s1.n > 0) )
        => C5_FirstNonEmptySourceWins

\* C10: when every source fails or returns nothing, the function returns an
\* empty result and does not raise.
C10_ExhaustionReturnsEmpty ==
    (fbPc = "done" /\ ~FirstYields(fbFunc, fbIn) /\ ~SecondYields(fbFunc, fbIn))
        => (~fbResult.raised /\ fbResult.src = None /\ fbResult.n = 0)

\* What does hold: C10 for fetch_top_holders and fetch_capital_flow_history;
\* fetch_stock_news does not raise either, and returns the records that were
\* appended before a source's handling raised (none if no record was).
C10_HoldsInDeepAnalysis ==
    /\ fbFunc \in {"fetch_top_holders", "fetch_capital_flow_history"}
          => C10_ExhaustionReturnsEmpty
    /\ (fbFunc = "fetch_stock_news" /\ fbPc = "done"
          /\ ~FirstYields(fbFunc, fbIn) /\ ~SecondYields(fbFunc, fbIn))
          => /\ ~fbResult.raised
             /\ fbResult.n = (IF fbIn.s1.kind = "bad" THEN fbIn.s1.n ELSE 0)
                               + (IF fbIn.s2.kind = "bad" THEN fbIn.s2.n ELSE 0)
             /\ fbResult.n = 0 <=> fbResult.src = None

(***************************************************************************)
(* Durable store: the table stock_daily_kline                              *)
(*                                                                         *)
(* The table is the set of its rows.  A timestamp is a calendar day and    *)
(* the minute of that day.  Float columns are counted in hundredths, the   *)
(* BIGINT column volume in whole shares.                                   *)
(***************************************************************************)
Midnight(day) == [day |-> day, minute |-> 0]

\* models.StockDailyKline: PrimaryKeyConstraint('time', 'code')
BarKey(row) == <<row.time, row.code>>

BarFields(row) ==
    [ open |-> row.open, high |-> row.high, low |-> row.low,
      close |-> row.close, volume |-> row.volume, turnover |-> row.turnover ]

BarKeysOf(rows) == { BarKey(r) : r \in rows }

Range(seq) == { seq[i] : i \in 1..Len(seq) }

\* two rows of one INSERT carry the same primary key: PostgreSQL rejects the
\* statement ("ON CONFLICT DO UPDATE command cannot affect row a second time")
HasDuplicateKeys(kline_data) ==
    \E i, j \in 1..Len(kline_data) :
        i # j /\ BarKey(kline_data[i]) = BarKey(kline_data[j])

\* a plausible slip: the table is reloaded from the batch (delete, then insert)
ReplaceRows(table, kline_data) == Range(kline_data)

\* a plausible slip: the conflict clause of bulk_save_daily_kline
\* (ON CONFLICT DO NOTHING) instead of DO UPDATE
OnConflictDoNothing(table, kline_data) ==
    table \cup { r \in Range(kline_data) : BarKey(r) \notin BarKeysOf(table) }

\* INSERT ... ON CONFLICT (time, code) DO UPDATE SET open, high, low, close,
\* volume, turnover = excluded.* (crud.py lines 135-153)
OnConflictDoUpdate(table, kline_data) ==
    { r \in table : BarKey(r) \notin BarKeysOf(Range(kline_data)) }
        \cup Range(kline_data)

\* a plausible slip: the rows stay written when the call fails (no rollback)
bulk_upsert_daily_kline_no_rollback(table, kline_data, dbOk) ==
    IF kline_data = <<>> THEN [table |-> table, raised |-> FALSE]
    ELSE IF HasDuplicateKeys(kline_data) THEN [table |-> table, raised |-> TRUE]
    ELSE [table |-> OnConflictDoUpdate(table, kline_data), raised |-> ~dbOk]

\* crud.bulk_upsert_daily_kline: the table afterwards and whether the call
\* raised.  dbOk: the database executes and commits the statement.
bulk_upsert_daily_kline(table, kline_data, dbOk) ==
    IF kline_data = <<>> THEN [table |-> table, raised |-> FALSE]
    ELSE IF ~dbOk \/ HasDuplicateKeys(kline_data)
         THEN [table |-> table, raised |-> TRUE]
         ELSE [table |-> OnConflictDoUpdate(table, kline_data), raised |-> FALSE]

\* a stored code is the numeric identifier followed by the venue suffix
Code(num, suf) == [num |-> num, suf |-> suf]

BarCodes == {Code("600001", ".SH"), Code("000001", ".SZ")}
BarDays  == {1, 2}

BarValues ==
    { [open |-> 1000, high |-> 1060, low |-> 990, close |-> 1050,
       volume |-> 1000, turnover |-> 1050000],
      [open |-> 1010, high |-> 1080, low |-> 1000, close |-> 1070,
       volume |-> 2500, turnover |-> 2660000] }

BarRows ==
    { [time |-> Midnight(d), code |-> c, open |-> v.open, high |-> v.high,
       low |-> v.low, close |-> v.close, volume |-> v.volume, turnover |-> v.turnover] :
        d \in BarDays, c \in BarCodes, v \in BarValues }

AllBarKeys == BarKeysOf(BarRows)

InitBars ==
    /\ CodeIdle /\ MinuteIdle /\ FallbackIdle /\ PipeIdle /\ WatchIdle
    /\ bars = {}
    /\ latestUpsert = [k \in AllBarKeys |-> NoValue]
    /\ overwritten = {}
    /\ upsertCall = NoValue
    /\ stocks = {}
    /\ storeJob = NoValue

BulkUpsertDailyKline(kline_data, dbOk) ==
    LET r == bulk_upsert_daily_kline(bars, kline_data, dbOk)
        committed == ~r.raised /\ kline_data # <<>>
    IN  /\ bars' = r.table
        /\ upsertCall' = [rows |-> Len(kline_data), raised |-> r.raised]
        /\ latestUpsert' =
             IF committed
             THEN [k \in AllBarKeys |->
                     IF \E i \in 1..Len(kline_data) : BarKey(kline_data[i]) = k
                     THEN BarFields(CHOOSE x \in Range(kline_data) : BarKey(x) = k)
                     ELSE latestUpsert[k]]
             ELSE latestUpsert
        /\ overwritten' =
             IF committed
             THEN overwritten \cup { BarKey(x) : x \in
                    { y \in Range(kline_data) :
                        /\ latestUpsert[BarKey(y)] # NoValue
                        /\ latestUpsert[BarKey(y)] # BarFields(y) } }
             ELSE overwritten
        /\ UNCHANGED <<codeVars, minuteVars, fbVars, pipeVars, watchVars, stocks, storeJob>>

NextBars ==
    \E kline_data \in SeqsUpTo(BarRows, MaxBatch), dbOk \in BOOLEAN :
        BulkUpsertDailyKline(kline_data, dbOk)

SpecBars == InitBars /\ [][NextBars]_vars

(***************************************************************************)
(* Daily bar claims                                                        *)
(***************************************************************************)
\* C2: the table never holds two rows with the same (time, code), and for every
\* key that committed upserts have carried, the stored row has the open, high,
\* low, close, volume and turnover of the latest of them.
C2_UpsertLastWriteWins ==
    /\ \A r1, r2 \in bars : BarKey(r1) = BarKey(r2) => r1 = r2
    /\ \A k \in AllBarKeys :
         latestUpsert[k] # NoValue
            => \E r \in bars : BarKey(r) = k /\ BarFields(r) = latestUpsert[k]

\* C2 witness: a second upsert of a key with other values was committed and
\* the one stored row of that key has the second upsert's values.
C2_Witness ==
    \E k \in overwritten :
        /\ Cardinality({ r \in bars : BarKey(r) = k }) = 1
        /\ \A r \in bars : BarKey(r) = k => BarFields(r) = latestUpsert[k]

(***************************************************************************)
(* Poller, cache and reconciler                                            *)
(*                                                                         *)
(* all_stock_codes holds request codes (venue prefix and numeric           *)
(* identifier).  A quote is the dict _fetch_batch_sina builds from one     *)
(* line; of its entries the model keeps those the reconciler reads.  Float *)
(* values are counted in hundredths.  Time passes in ticks; a key written  *)
(* with setex lives for QuoteTTL ticks.                                    *)
(***************************************************************************)
Req(pre, num) == [pre |-> pre, num |-> num]

\* self.all_stock_codes
Universe == << Req("sh", "600001"), Req("sz", "000001") >>

\* 'code' of the item: code_with_prefix[2:] + ('.SH' if ... 'sh' else '.SZ')
CacheCode(req) == Code(req.num, IF req.pre = "sh" THEN ".SH" ELSE ".SZ")

CacheCodes == { CacheCode(Universe[i]) : i \in 1..Len(Universe) }

\* what a line of the provider carries for one instrument
QuoteValues ==
    [ q1 |-> [ time |-> [day |-> 1, minute |-> 570], open |-> 1000, price |-> 1050,
               high |-> 1060, low |-> 990, volume |-> 100000, turnover |-> 1050000 ],
      q2 |-> [ time |-> [day |-> 1, minute |-> 870], open |-> 1010, price |-> 1070,
               high |-> 1080, low |-> 1000, volume |-> 250000, turnover |-> 2660000 ] ]

QuoteIds == {"q1", "q2"}

\* a line: a quote, or the empty payload (var hq_str_sh600001="";)
LineChoices == QuoteIds \cup {"empty"}

ChunkResponses(n) ==
    { [kind |-> "exception", lines |-> <<>>], [kind |-> "status", lines |-> <<>>] }
    \cup { [kind |-> "lines", lines |-> l] : l \in SeqsOfLen(LineChoices, n) }

NumChunks == (Len(Universe) + BatchSize - 1) \div BatchSize

\* self.all_stock_codes[i : i + BATCH_SIZE] of the i-th pass of the loop
Chunk(i) ==
    SubSeq(Universe, (i - 1) * BatchSize + 1, Min(i * BatchSize, Len(Universe)))

\* the item built from one line (realtime_fetcher.py lines 148-182)
SinaItem(req, choice) ==
    LET q == QuoteValues[choice]
    IN  [ code |-> CacheCode(req), price |-> q.price, open |-> q.open,
          high |-> q.high, low |-> q.low, volume |-> q.volume,
          turnover |-> q.turnover, time |-> q.time ]

RECURSIVE SinaLines(_, _)
SinaLines(codes, lines) ==
    IF codes = <<>> THEN <<>>
    ELSE (IF Head(lines) = "empty" THEN <<>> ELSE <<SinaItem(Head(codes), Head(lines))>>)
            \o SinaLines(Tail(codes), Tail(lines))

\* RealtimeDataFetcher._fetch_batch_sina: session.get raises (timeout,
\* connection error), or the status is not 200, or the lines are parsed
fetch_batch_sina(codes, resp) ==
    CASE resp.kind = "exception" -> [raised |-> TRUE, items |-> <<>>]
      [] resp.kind = "status"    -> [raised |-> FALSE, items |-> <<>>]
      [] resp.kind = "lines"     -> [raised |-> FALSE, items |-> SinaLines(codes, resp.lines)]

\* a plausible slip: the first chunk that raises ends the cycle
RECURSIVE CollectBatchesAbort(_, _)
CollectBatchesAbort(resps, i) ==
    IF i > NumChunks THEN <<>>
    ELSE LET r == fetch_batch_sina(Chunk(i), resps[i])
         IN  IF r.raised THEN <<>>
             ELSE r.items \o CollectBatchesAbort(resps, i + 1)

\* the loop of fetch_realtime_quotes (lines 95-102): all_data
RECURSIVE CollectBatches(_, _)
CollectBatches(resps, i) ==
    IF i > NumChunks THEN <<>>
    ELSE LET r == fetch_batch_sina(Chunk(i), resps[i])
         IN  (IF r.raised THEN <<>> ELSE r.items) \o CollectBatches(resps, i + 1)

\* a plausible slip: a longer expiry than the one the design fixes
PushExpiryDoubled == 2 * QuoteTTL

\* the expiry _push_to_redis gives every key: pipe.setex(key, 60, ...)
PushExpiry == QuoteTTL

\* a plausible slip: the fields that move are written over the stored value
\* one by one (a hash updated in place) and the quote's time is left behind
RECURSIVE push_to_redis_fields(_, _)
push_to_redis_fields(store, rows) ==
    IF rows = <<>> THEN store
    ELSE push_to_redis_fields(
            [store EXCEPT ![Head(rows).code] =
                IF @ = NoValue THEN [snap |-> Head(rows), ttl |-> PushExpiry]
                ELSE [snap |-> [@.snap EXCEPT !.price = Head(rows).price,
                                              !.high = Head(rows).high,
                                              !.low = Head(rows).low,
                                              !.volume = Head(rows).volume],
                      ttl |-> PushExpiry]],
            Tail(rows))

\* RealtimeDataFetcher._push_to_redis: one setex per row, later rows of the
\* same key overwriting earlier ones
RECURSIVE push_to_redis(_, _)
push_to_redis(store, rows) ==
    IF rows = <<>> THEN store
    ELSE push_to_redis(
            [store EXCEPT ![Head(rows).code] = [snap |-> Head(rows), ttl |-> PushExpiry]],
            Tail(rows))

LiveKeys == { c \in CacheCodes : cache[c] # NoValue }

\* int(float(x)) of a non-negative value: the fraction is cut off
IntOfFloat(x) == x \div 100

\* a plausible slip: the timestamp is stored as it is
KeepTimestamp(ts) == ts

\* pd.to_datetime(trade_time_str).normalize(): 00:00 of the same day
NormalizeTimestamp(ts) == Midnight(ts.day)

\* the row sync_to_db builds from one cached quote (lines 69-78)
ToDailyBar(data) ==
    [ time     |-> NormalizeTimestamp(data.time),
      code     |-> data.code,
      open     |-> data.open,
      high     |-> data.high,
      low      |-> data.low,
      close    |-> data.price,
      volume   |-> IntOfFloat(data.volume),
      turnover |-> data.turnover ]

RECURSIVE SetToSeq(_)
SetToSeq(S) ==
    IF S = {} THEN <<>>
    ELSE LET x == CHOOSE y \in S : TRUE IN <<x>> \o SetToSeq(S \ {x})

\* a plausible slip: a key that is gone yields a quote of zeros
MgetDefaults(keys) ==
    { IF cache[c] # NoValue THEN cache[c].snap
      ELSE [ code |-> c, price |-> 0, open |-> 0, high |-> 0, low |-> 0,
             volume |-> 0, turnover |-> 0, time |-> [day |-> 1, minute |-> 0] ] :
      c \in keys }

\* the values mget returns for the enumerated keys that still exist
MgetLive(keys) == { cache[c].snap : c \in { k \in keys : cache[k] # NoValue } }

NoSync == [busy |-> FALSE, keys |-> {}]

RECURSIVE RespSeqs(_)
RespSeqs(i) ==
    IF i > NumChunks THEN {<<>>}
    ELSE { <<r>> \o t : r \in ChunkResponses(Len(Chunk(i))), t \in RespSeqs(i + 1) }

PollInputs == RespSeqs(1)

InitPipe ==
    /\ CodeIdle /\ MinuteIdle /\ FallbackIdle /\ WatchIdle
    /\ bars = {}
    /\ latestUpsert = None
    /\ overwritten = {}
    /\ upsertCall = NoValue
    /\ stocks = {}
    /\ storeJob = NoValue
    /\ cache = [c \in CacheCodes |-> NoValue]
    /\ age = [c \in CacheCodes |-> QuoteTTL]
    /\ polling = TRUE
    /\ reconciling = TRUE
    /\ syncKeys = NoSync
    /\ pollLog = NoValue
    /\ syncLog = NoValue
    /\ sinceSync = 0

notPipeVars == <<codeVars, minuteVars, fbVars, barsHist, watchVars, sinceSync>>

\* the same without the timer of the reconciler
notClockVars == <<codeVars, minuteVars, fbVars, barsHist, watchVars>>

\* a plausible slip: a cycle that obtained nothing renews the expiry of the
\* keys that exist
PollCycleRenewing(resps, redisOk) ==
    LET all_data == CollectBatches(resps, 1)
        store    == IF all_data = <<>>
                    THEN [c \in CacheCodes |->
                            IF cache[c] = NoValue THEN NoValue
                            ELSE [cache[c] EXCEPT !.ttl = PushExpiry]]
                    ELSE push_to_redis(cache, all_data)
    IN
    /\ polling
    /\ pollLog' = [ failed   |-> { i \in 1..NumChunks : resps[i].kind # "lines" },
                    returned |-> UNION { Range(SinaLines(Chunk(i), resps[i].lines)) :
                                           i \in { j \in 1..NumChunks : resps[j].kind = "lines" } },
                    redisOk  |-> redisOk ]
    /\ IF redisOk
       THEN /\ cache' = store
            /\ age' = [c \in CacheCodes |-> IF store[c] # cache[c] THEN 0 ELSE age[c]]
            /\ UNCHANGED polling
       ELSE /\ polling' = FALSE
            /\ UNCHANGED <<cache, age>>
    /\ syncLog' = NoValue
    /\ UNCHANGED <<bars, reconciling, syncKeys, notPipeVars>>

\* One pass of the loop of RealtimeDataFetcher.run: fetch_realtime_quotes.
\* resps: what the provider does for each chunk; redisOk: the pipeline of
\* _push_to_redis executes.  A Redis failure leaves fetch_realtime_quotes as an
\* exception that run does not catch.
PollCycle(resps, redisOk) ==
    LET all_data == CollectBatches(resps, 1) IN
    /\ polling
    /\ pollLog' = [ failed   |-> { i \in 1..NumChunks : resps[i].kind # "lines" },
                    returned |-> UNION { Range(SinaLines(Chunk(i), resps[i].lines)) :
                                           i \in { j \in 1..NumChunks : resps[j].kind = "lines" } },
                    redisOk  |-> redisOk ]
    /\ IF all_data = <<>>
       THEN UNCHANGED <<cache, age, polling>>
       ELSE IF redisOk
            THEN /\ cache' = push_to_redis(cache, all_data)
                 /\ age' = [c \in CacheCodes |->
                              IF \E x \in Range(all_data) : x.code = c THEN 0 ELSE age[c]]
                 /\ UNCHANGED polling
            ELSE /\ polling' = FALSE
                 /\ UNCHANGED <<cache, age>>
    /\ syncLog' = NoValue
    /\ UNCHANGED <<bars, reconciling, syncKeys, notPipeVars>>

\* the poll loop is stopped (KeyboardInterrupt, the process ends)
StopPolling ==
    /\ polling
    /\ polling' = FALSE
    /\ pollLog' = NoValue
    /\ syncLog' = NoValue
    /\ UNCHANGED <<cache, age, bars, reconciling, syncKeys, notPipeVars>>

\* Time passes by one tick: every key loses one tick of its time to live and
\* is gone when none is left.
Tick ==
    /\ \/ LiveKeys # {}
       \/ \E c \in CacheCodes : age[c] < QuoteTTL
    /\ cache' = [c \in CacheCodes |->
                   IF cache[c] = NoValue THEN NoValue
                   ELSE IF cache[c].ttl <= 1 THEN NoValue
                   ELSE [cache[c] EXCEPT !.ttl = @ - 1]]
    /\ age' = [c \in CacheCodes |-> Min(age[c] + 1, QuoteTTL)]
    /\ pollLog' = NoValue
    /\ syncLog' = NoValue
    /\ UNCHANGED <<bars, polling, reconciling, syncKeys, notPipeVars>>

\* the mget of a tick has returned and its rows wait for the upsert
Fetched == "values" \in DOMAIN syncKeys

\* sync_to_db, lines 41-44: keys('quote:*').  With no key the tick ends here.
\* A Redis failure leaves sync_to_db as an exception that run does not catch.
SyncToDbKeys(redisOk) ==
    /\ reconciling
    /\ ~syncKeys.busy
    /\ IF redisOk
       THEN /\ syncKeys' = IF LiveKeys = {} THEN NoSync
                           ELSE [busy |-> TRUE, keys |-> LiveKeys]
            /\ UNCHANGED reconciling
       ELSE /\ reconciling' = FALSE
            /\ UNCHANGED syncKeys
    /\ syncLog' = IF redisOk /\ LiveKeys = {}
                  THEN [ read |-> {}, wrote |-> FALSE, empty |-> TRUE,
                         keys |-> {}, gone |-> {}, logged |-> <<>>, dbOk |-> TRUE ]
                  ELSE NoValue
    /\ pollLog' = NoValue
    /\ UNCHANGED <<cache, age, bars, polling, notClockVars>>

\* sync_to_db, lines 47-85: one mget of the enumerated keys and the mapping of
\* every value that is still there (a key that is gone yields None and is
\* skipped).  With no row the tick ends here.  The poller and the expiry of
\* keys go on between the keys command and this one.
SyncToDbMget(redisOk) ==
    /\ reconciling
    /\ syncKeys.busy
    /\ ~Fetched
    /\ pollLog' = NoValue
    /\ IF ~redisOk
       THEN /\ reconciling' = FALSE
            /\ syncKeys' = NoSync
            /\ syncLog' = NoValue
       ELSE LET values     == MgetLive(syncKeys.keys)
                kline_data == SetToSeq({ ToDailyBar(v) : v \in values })
                gone       == syncKeys.keys \ LiveKeys
            IN  /\ IF kline_data = <<>>
                   THEN /\ syncKeys' = NoSync
                        /\ syncLog' = [ read |-> values, wrote |-> FALSE,
                                        empty |-> FALSE, keys |-> syncKeys.keys,
                                        gone |-> gone, logged |-> <<>>,
                                        dbOk |-> TRUE ]
                   ELSE /\ syncKeys' = [ busy |-> TRUE, keys |-> syncKeys.keys,
                                         values |-> values,
                                         kline_data |-> kline_data,
                                         gone |-> gone ]
                        /\ syncLog' = NoValue
                /\ UNCHANGED reconciling
    /\ UNCHANGED <<cache, age, bars, polling, notClockVars>>

\* sync_to_db, lines 88-96: the upsert of the rows built from what mget
\* returned, in a transaction of its own.  dbOk: the database executes and
\* commits the statement; a failure is logged and the tick ends.  logged: the
\* number the line of line 92 carries.  The poller
\* and the expiry of keys go on between the mget and this step.
SyncToDbUpsert(dbOk) ==
    LET r == bulk_upsert_daily_kline(bars, syncKeys.kline_data, dbOk) IN
    /\ reconciling
    /\ syncKeys.busy
    /\ Fetched
    /\ bars' = r.table
    /\ syncLog' = [ read  |-> syncKeys.values,
                    wrote |-> ~r.raised,
                    empty |-> FALSE,
                    keys  |-> syncKeys.keys,
                    gone  |-> syncKeys.gone,
                    logged |-> IF r.raised THEN <<>> ELSE << Len(syncKeys.kline_data) >>,
                    dbOk  |-> dbOk ]
    /\ syncKeys' = NoSync
    /\ pollLog' = NoValue
    /\ UNCHANGED <<cache, age, polling, reconciling, notClockVars>>

\* the steps of a tick of the reconciler that runs whenever it likes
SyncEnumerate(redisOk) == SyncToDbKeys(redisOk) /\ UNCHANGED sinceSync

SyncMget(redisOk) == SyncToDbMget(redisOk) /\ UNCHANGED sinceSync

SyncUpsert(dbOk) == SyncToDbUpsert(dbOk) /\ UNCHANGED sinceSync

NextPipe ==
    \/ \E resps \in PollInputs, redisOk \in BOOLEAN : PollCycle(resps, redisOk)
    \/ StopPolling
    \/ Tick
    \/ \E redisOk \in BOOLEAN : SyncEnumerate(redisOk)
    \/ \E redisOk \in BOOLEAN : SyncMget(redisOk)
    \/ \E dbOk \in BOOLEAN : SyncUpsert(dbOk)

SpecPipe == InitPipe /\ [][NextPipe]_vars

\* time passes
SpecPipeFair == SpecPipe /\ WF_vars(Tick)

(***************************************************************************)
(* Claims about the poller, the cache and the reconciler                   *)
(***************************************************************************)

\* C3: in a poll cycle in which exactly one chunk fetch failed (an exception
\* or a status other than 200) and the cache accepted the write, the loop goes
\* on polling and the cache holds, for every instrument the other chunks
\* returned, the quote that was returned.
C3_OneFailedChunkDoesNotAbort ==
    (pollLog # NoValue /\ Cardinality(pollLog.failed) = 1 /\ pollLog.redisOk)
        => /\ polling
           /\ \A x \in pollLog.returned :
                 /\ cache[x.code] # NoValue
                 /\ cache[x.code].snap = x

\* a cycle of two chunks, one failed, whose other chunk returned a quote that
\* is now cached
C3_Witness ==
    /\ pollLog # NoValue
    /\ Cardinality(pollLog.failed) = 1
    /\ pollLog.redisOk
    /\ \E x \in pollLog.returned : cache[x.code] # NoValue /\ cache[x.code].snap = x

\* C7: when a reconciliation tick read quotes from the cache and its write
\* was committed, the table holds for every quote read a bar keyed (00:00 of
\* the quote's day, code) whose close is the quote's price and whose open,
\* high, low, volume (whole shares) and turnover are the quote's.
C7_SnapshotMapsToDailyBar ==
    (syncLog # NoValue /\ syncLog.wrote)
        => \A s \in syncLog.read :
             \E b \in bars :
                /\ b.time = Midnight(s.time.day)
                /\ b.code = s.code
                /\ b.close = s.price
                /\ b.open = s.open
                /\ b.high = s.high
                /\ b.low = s.low
                /\ b.volume * 100 = s.volume
                /\ b.turnover = s.turnover

\* a committed tick that read a quote taken during the session (not at 00:00)
C7_Witness ==
    /\ syncLog # NoValue
    /\ syncLog.wrote
    /\ \E s \in syncLog.read :
          /\ s.time.minute # 0
          /\ \E b \in bars : b.time = Midnight(s.time.day) /\ b.code = s.code
                                /\ b.close = s.price

\* the step in which the mget of a tick returns
SyncMgetDone == syncKeys.busy /\ ~Fetched /\ (Fetched' \/ syncLog' # NoValue)

\* the values the mget of that step returned
SyncMgetValues == IF Fetched' THEN syncKeys'.values ELSE syncLog'.read

\* C4: a key that has not been written for QuoteTTL ticks is gone and no bulk
\* read returns it; once polling has stopped the cache eventually holds no
\* key; and from then on no tick that comes after changes the table (a tick
\* whose mget had returned before may still write what it read).
C4_ExpiredKeysVanish ==
    /\ [](\A c \in CacheCodes : age[c] >= QuoteTTL => cache[c] = NoValue)
    /\ [][ SyncMgetDone => \A v \in SyncMgetValues : age[v.code] < QuoteTTL ]_vars
    /\ ((~polling) ~> (LiveKeys = {}))
    /\ [][ (~polling /\ LiveKeys = {} /\ ~Fetched)
             => (bars' = bars /\ LiveKeys' = {} /\ ~Fetched') ]_vars

\* polling has stopped, every key written before has expired, rows were
\* written while the keys lived, and a reconciliation tick has just found no
\* key
C4_Witness ==
    /\ ~polling
    /\ LiveKeys = {}
    /\ bars # {}
    /\ syncLog # NoValue
    /\ syncLog.empty

\* a step that ends a reconciliation tick whose write failed
SyncWriteFailed ==
    /\ syncLog' # NoValue
    /\ ~syncLog'.empty
    /\ syncLog'.read # {}
    /\ ~syncLog'.wrote

\* C16: a reconciliation tick whose write fails leaves the table as it was,
\* and leaves the loop running and at the start of a tick; the mget of every
\* tick returns what the cache holds at that moment for the enumerated keys,
\* and the upsert is tried with exactly the rows of those values.
C16_FailedWriteRetriedNextTick ==
    /\ [][ SyncWriteFailed
             => (bars' = bars /\ reconciling' /\ syncKeys' = NoSync) ]_vars
    /\ [][ SyncMgetDone
             => SyncMgetValues = { cache[c].snap : c \in syncKeys.keys \cap LiveKeys } ]_vars
    /\ [][ (Fetched /\ syncLog' # NoValue)
             => /\ syncLog'.read = syncKeys.values
                /\ syncLog'.wrote => bars' = OnConflictDoUpdate(bars, syncKeys.kline_data) ]_vars
    /\ [](reconciling /\ ~syncKeys.busy => ENABLED SyncEnumerate(TRUE))

\* a tick whose write failed while the table held rows of an earlier tick and
\* the cache still holds quotes for the next one
C16_Witness ==
    /\ syncLog # NoValue
    /\ ~syncLog.empty
    /\ syncLog.read # {}
    /\ ~syncLog.wrote
    /\ reconciling
    /\ syncKeys = NoSync
    /\ bars # {}
    /\ \E v \in syncLog.read : ToDailyBar(v) \notin bars
    /\ LiveKeys # {}

\* a step that ends a poll cycle in which no chunk returned a quote
ZeroSnapshotCycle ==
    /\ pollLog' # NoValue
    /\ pollLog'.returned = {}

\* C17: a poll cycle that obtained no quote leaves every cache entry and its
\* remaining time to live as they were, whether or not Redis could be reached,
\* and leaves the loop polling; while the loop polls, a cycle can start.
C17_EmptyCycleWritesNothing ==
    /\ [][ ZeroSnapshotCycle => (cache' = cache /\ age' = age /\ polling') ]_vars
    /\ [](polling => ENABLED (\E resps \in PollInputs : PollCycle(resps, TRUE)))

\* a cycle that obtained nothing while the cache held a quote part of whose
\* time to live had passed
C17_Witness ==
    /\ pollLog # NoValue
    /\ pollLog.returned = {}
    /\ polling
    /\ \E c \in CacheCodes : cache[c] # NoValue /\ cache[c].ttl < PushExpiry

\* the rows of the table for instrument c
BarsOf(table, c) == { r \in table : r.code = c }

\* a reconciliation tick ends having read the keys it had enumerated
SyncReadDone == syncLog' # NoValue /\ ~syncLog'.empty

\* C21: in a tick whose enumerated key expired before the mget, no row is
\* written for that instrument (its rows in the table are what they were, and
\* nothing with zero values appears); every other enumerated key has its value
\* read, and if the statement commits, the rows of those values are in the
\* table.
C21_ExpiredKeyIsUnknown ==
    [][ SyncReadDone =>
          /\ \A c \in syncLog'.gone : BarsOf(bars', c) = BarsOf(bars, c)
          /\ \A r \in bars' \ bars :
                r.close # 0 /\ r.code \in syncLog'.keys \ syncLog'.gone
          /\ syncLog'.wrote => \A v \in syncLog'.read : ToDailyBar(v) \in bars'
          /\ \A c \in syncLog'.keys \ syncLog'.gone :
                \E v \in syncLog'.read : v.code = c ]_vars

\* a committed tick that had enumerated both keys, found one of them expired
\* and wrote the other; the expired instrument has its earlier row
C21_Witness ==
    /\ syncLog # NoValue
    /\ ~syncLog.empty
    /\ syncLog.wrote
    /\ syncLog.keys = CacheCodes
    /\ \E c \in syncLog.gone :
          /\ BarsOf(bars, c) # {}
          /\ \A v \in syncLog.read : v.code # c
    /\ \E v \in syncLog.read : ToDailyBar(v) \in bars

\* C27: no failure inside a cycle ends a loop: after a poll cycle the poll
\* loop is running, and the reconciliation loop, once running, keeps running.
C27_LoopsSurviveFailures ==
    [][ /\ pollLog' # NoValue => polling'
        /\ reconciling => reconciling' ]_vars

\* what holds: a cycle in which the provider fails for every chunk, and a tick
\* whose upsert fails, leave their loops running; a cycle or a tick in which a
\* Redis command raises ends its loop
C27_OnlyRedisFailureEndsLoop ==
    /\ [][ pollLog' # NoValue =>
             (polling' <=> (pollLog'.redisOk \/ pollLog'.returned = {})) ]_vars
    /\ [][ (syncLog' # NoValue) => reconciling' ]_vars
    /\ [][ (reconciling /\ ~reconciling') => (bars' = bars /\ cache' = cache) ]_vars

(***************************************************************************)
(* The reconciliation loop on its timer                                    *)
(*                                                                         *)
(* PersistenceService.run calls sync_to_db at once and then sleeps for the *)
(* interval, so the first tick starts when run is called and every other   *)
(* tick SyncInterval clock ticks after the one before has returned (the    *)
(* time sync_to_db itself takes comes on top).  The poller runs already    *)
(* when run is called and writes at any moment until it stops.  Every      *)
(* Redis command succeeds; the upsert may fail.                            *)
(***************************************************************************)
\* what the poller has left in the cache when the reconciler is started:
\* under each key nothing, or a quote with part of its time to live
StartCaches ==
    { store \in [CacheCodes -> {NoValue} \cup
                     { [snap |-> SinaItem(Universe[i], q), ttl |-> t] :
                         i \in 1..Len(Universe), q \in QuoteIds, t \in 1..PushExpiry }] :
        \A c \in CacheCodes : store[c] # NoValue => store[c].snap.code = c }

\* PersistenceService.run is called: no sleep precedes the first sync_to_db
InitClock ==
    /\ CodeIdle /\ MinuteIdle /\ FallbackIdle /\ WatchIdle
    /\ bars = {}
    /\ latestUpsert = None
    /\ overwritten = {}
    /\ upsertCall = NoValue
    /\ stocks = {}
    /\ storeJob = NoValue
    /\ cache \in StartCaches
    /\ age = [c \in CacheCodes |->
                IF cache[c] = NoValue THEN QuoteTTL ELSE PushExpiry - cache[c].ttl]
    /\ polling = TRUE
    /\ reconciling = TRUE
    /\ syncKeys = NoSync
    /\ pollLog = NoValue
    /\ syncLog = NoValue
    /\ sinceSync = SyncInterval

\* One clock tick passes: while the reconciliation loop sleeps (time.sleep),
\* or while a call of sync_to_db is waiting for Redis or the database.
ClockTick ==
    /\ syncKeys.busy \/ sinceSync < SyncInterval
    /\ sinceSync' = IF syncKeys.busy THEN sinceSync ELSE sinceSync + 1
    /\ cache' = [c \in CacheCodes |->
                   IF cache[c] = NoValue THEN NoValue
                   ELSE IF cache[c].ttl <= 1 THEN NoValue
                   ELSE [cache[c] EXCEPT !.ttl = @ - 1]]
    /\ age' = [c \in CacheCodes |-> Min(age[c] + 1, QuoteTTL)]
    /\ pollLog' = NoValue
    /\ syncLog' = NoValue
    /\ UNCHANGED <<bars, polling, reconciling, syncKeys, notClockVars>>

\* the sleep starts anew when sync_to_db has returned
SleepAfter == sinceSync' = IF syncKeys'.busy THEN sinceSync ELSE 0

\* sync_to_db when run is called or the sleep is over: keys
ClockEnumerate ==
    /\ sinceSync = SyncInterval
    /\ SyncToDbKeys(TRUE)
    /\ SleepAfter

\* sync_to_db: mget and the mapping
ClockMget == SyncToDbMget(TRUE) /\ SleepAfter

\* sync_to_db: the upsert
ClockUpsert(dbOk) == SyncToDbUpsert(dbOk) /\ SleepAfter

NextClock ==
    \/ \E resps \in PollInputs : PollCycle(resps, TRUE)
    \/ StopPolling
    \/ ClockTick
    \/ ClockEnumerate
    \/ ClockMget
    \/ \E dbOk \in BOOLEAN : ClockUpsert(dbOk)

SpecClock == InitClock /\ [][NextClock]_vars

\* time passes, the reconciler ticks at its interval and goes on from one
\* command to the next, and the upsert succeeds again and again
SpecClockFair ==
    /\ SpecClock
    /\ WF_vars(ClockTick)
    /\ WF_vars(ClockEnumerate)
    /\ WF_vars(ClockMget)
    /\ WF_vars(\E dbOk \in BOOLEAN : ClockUpsert(dbOk))
    /\ SF_vars(ClockUpsert(TRUE))

\* the snapshots the poller can write
Snapshots == { SinaItem(Universe[i], q) : i \in 1..Len(Universe), q \in QuoteIds }

\* a tick has just ended in an upsert the database did not accept
UpsertRefused == syncLog # NoValue /\ ~syncLog.dbOk

\* C28: with time passing and the reconciler ticking at its interval, a
\* snapshot that is in the cache is eventually in the table as its daily bar,
\* unless a later write of the poller replaced it in the cache (that one
\* being subject to the same) or the database refused an upsert in between.
C28_SnapshotEventuallyStored ==
    \A s \in Snapshots :
        (cache[s.code] # NoValue /\ cache[s.code].snap = s)
            ~> ( \/ ToDailyBar(s) \in bars
                 \/ (cache[s.code] # NoValue /\ cache[s.code].snap # s)
                 \/ UpsertRefused )

\* what holds: a tick whose upsert commits stores the bar of every snapshot
\* its mget returned
C28_CommittedTickStoresReadSnapshots ==
    [][ (syncLog' # NoValue /\ syncLog'.wrote)
          => /\ syncLog'.read # {}
             /\ \A v \in syncLog'.read : ToDailyBar(v) \in bars' ]_vars

(***************************************************************************)
(* Poller and readers, command by command                                  *)
(*                                                                         *)
(* The cache server executes one command at a time.  A poll cycle fetches  *)
(* its chunks, queues one setex per row on a pipeline and executes the     *)
(* pipeline: the server runs the queued commands as one block, with no     *)
(* command of another client in between.  The reconciler sends keys and    *)
(* mget and then upserts what mget returned; the pages send get and mget.  *)
(* Keys expire as time passes.  The commands of the poller and of the      *)
(* readers arrive in any order; no lock is taken anywhere.  pollLog holds  *)
(* the number of the cycle and, per key, the history of the values         *)
(* written; syncLog holds what the last read returned and how many writes  *)
(* the key had seen at that moment.                                        *)
(***************************************************************************)
Last(seq) == seq[Len(seq)]

InitReaders ==
    /\ CodeIdle /\ MinuteIdle /\ FallbackIdle /\ WatchIdle
    /\ bars = {}
    /\ latestUpsert = None
    /\ overwritten = {}
    /\ upsertCall = NoValue
    /\ stocks = {}
    /\ storeJob = NoValue
    /\ cache = [c \in CacheCodes |-> NoValue]
    /\ age = [c \in CacheCodes |-> QuoteTTL]
    /\ polling = TRUE
    /\ reconciling = TRUE
    /\ syncKeys = NoSync
    /\ pollLog = [cycle |-> 0, written |-> [c \in CacheCodes |-> <<>>]]
    /\ syncLog = NoValue
    /\ sinceSync = 0

\* the rows of a cycle that carry code c, in the order of the pipeline
RowsFor(rows, c) == SelectSeq(rows, LAMBDA x : x.code = c)

\* fetch_realtime_quotes: the chunks are fetched and _push_to_redis queues
\* one setex per row and executes the pipeline, which the server runs as one
\* block.  With no row nothing is sent.  redisOk: the pipeline executes; a
\* Redis failure writes nothing and leaves run as an exception.
FetchRealtimeQuotes(resps, redisOk) ==
    LET all_data == CollectBatches(resps, 1) IN
    /\ polling
    /\ pollLog.cycle < MaxCycles
    /\ IF all_data = <<>>
       THEN /\ UNCHANGED <<cache, age, polling>>
            /\ pollLog' = [pollLog EXCEPT !.cycle = @ + 1]
       ELSE IF redisOk
            THEN /\ cache' = push_to_redis(cache, all_data)
                 /\ age' = [c \in CacheCodes |->
                              IF RowsFor(all_data, c) # <<>> THEN 0 ELSE age[c]]
                 /\ pollLog' =
                      [ cycle   |-> pollLog.cycle + 1,
                        written |-> [c \in CacheCodes |->
                           IF RowsFor(all_data, c) = <<>> THEN pollLog.written[c]
                           ELSE Append(pollLog.written[c],
                                       [ cycle |-> pollLog.cycle + 1,
                                         snap  |-> Last(RowsFor(all_data, c)) ])] ]
                 /\ UNCHANGED polling
            ELSE /\ polling' = FALSE
                 /\ pollLog' = [pollLog EXCEPT !.cycle = @ + 1]
                 /\ UNCHANGED <<cache, age>>
    /\ syncLog' = NoValue
    /\ UNCHANGED <<bars, reconciling, syncKeys, notPipeVars>>

\* time passes by one tick: every key loses one tick of its time to live and
\* is gone when none is left
KeysExpire ==
    /\ LiveKeys # {}
    /\ cache' = [c \in CacheCodes |->
                   IF cache[c] = NoValue THEN NoValue
                   ELSE IF cache[c].ttl <= 1 THEN NoValue
                   ELSE [cache[c] EXCEPT !.ttl = @ - 1]]
    /\ age' = [c \in CacheCodes |-> Min(age[c] + 1, QuoteTTL)]
    /\ syncLog' = NoValue
    /\ UNCHANGED <<bars, polling, reconciling, syncKeys, pollLog, notPipeVars>>

\* the number of writes every key has seen
WritesSeen == [c \in CacheCodes |-> Len(pollLog.written[c])]

\* what a read of key c returns, with the number of writes the key has seen
ReadOf(c) == [code |-> c, value |-> cache[c].snap, nwrites |-> WritesSeen[c]]

\* sync_to_db: keys('quote:*'); with no key the tick ends here
ReaderKeys ==
    /\ reconciling
    /\ ~syncKeys.busy
    /\ syncKeys' = IF LiveKeys = {} THEN NoSync
                   ELSE [busy |-> TRUE, keys |-> LiveKeys, listed |-> WritesSeen]
    /\ syncLog' = NoValue
    /\ UNCHANGED <<cache, age, bars, polling, reconciling, pollLog, notPipeVars>>

\* sync_to_db: mget of the keys enumerated and the mapping of every value
\* that is still there; with no row the tick ends here
ReaderMget ==
    LET values     == MgetLive(syncKeys.keys)
        kline_data == SetToSeq({ ToDailyBar(v) : v \in values })
    IN
    /\ reconciling
    /\ syncKeys.busy
    /\ ~Fetched
    /\ syncKeys' = IF kline_data = <<>> THEN NoSync
                   ELSE [ busy |-> TRUE, keys |-> syncKeys.keys,
                          listed |-> syncKeys.listed,
                          values |-> values, kline_data |-> kline_data ]
    /\ syncLog' = [ reader |-> "sync_to_db",
                    listed |-> syncKeys.listed,
                    reads  |-> { ReadOf(c) : c \in syncKeys.keys \cap LiveKeys } ]
    /\ UNCHANGED <<cache, age, bars, polling, reconciling, pollLog, notPipeVars>>

\* sync_to_db: the upsert of the rows built from what mget returned
ReaderUpsert(dbOk) ==
    /\ reconciling
    /\ syncKeys.busy
    /\ Fetched
    /\ bars' = bulk_upsert_daily_kline(bars, syncKeys.kline_data, dbOk).table
    /\ syncKeys' = NoSync
    /\ syncLog' = NoValue
    /\ UNCHANGED <<cache, age, polling, reconciling, pollLog, notPipeVars>>

\* get_stock_realtime_info of the detail page: get('quote:<code>'); a key that is
\* gone yields None and the page asks the provider
ReaderGet(c) ==
    /\ syncLog' = [ reader |-> "get_stock_realtime_info",
                    listed |-> WritesSeen,
                    reads  |-> IF cache[c] = NoValue THEN {} ELSE {ReadOf(c)} ]
    /\ UNCHANGED <<cache, age, bars, polling, reconciling, syncKeys, pollLog, notPipeVars>>

\* the market page: mget of keys it holds the names of (listed by an earlier
\* keys command, or built from codes); keys that are gone yield None
PageMget(keys) ==
    /\ syncLog' = [ reader |-> "get_realtime_data_from_redis",
                    listed |-> WritesSeen,
                    reads  |-> { ReadOf(c) : c \in keys \cap LiveKeys } ]
    /\ UNCHANGED <<cache, age, bars, polling, reconciling, syncKeys, pollLog, notPipeVars>>

NextReaders ==
    \/ \E resps \in PollInputs, redisOk \in BOOLEAN : FetchRealtimeQuotes(resps, redisOk)
    \/ KeysExpire
    \/ ReaderKeys
    \/ ReaderMget
    \/ \E dbOk \in BOOLEAN : ReaderUpsert(dbOk)
    \/ \E c \in CacheCodes : ReaderGet(c)
    \/ \E keys \in SUBSET CacheCodes : PageMget(keys)

SpecReaders == InitReaders /\ [][NextReaders]_vars

\* C20: whatever the order of the commands of the poller and of the readers,
\* the value under a quote key is the whole snapshot of the latest write of
\* that key, every value a reader gets is the snapshot one poll cycle wrote,
\* and it is the one of the latest cycle that had written the key when the
\* read was made.
C20_ReadersSeeLatestWholeSnapshot ==
    /\ \A c \in CacheCodes :
          /\ cache[c] # NoValue =>
                /\ pollLog.written[c] # <<>>
                /\ cache[c].snap = Last(pollLog.written[c]).snap
          /\ \A i, j \in 1..Len(pollLog.written[c]) :
                i < j => pollLog.written[c][i].cycle < pollLog.written[c][j].cycle
    /\ syncLog # NoValue =>
          \A o \in syncLog.reads :
             /\ o.nwrites >= 1
             /\ o.nwrites = Len(pollLog.written[o.code])
             /\ o.value = pollLog.written[o.code][o.nwrites].snap
             /\ o.value.code = o.code

\* a poll cycle ran between the reconciler's keys and its mget, and the mget
\* returned, for a key two cycles wrote with different quotes, the second one
C20_Witness ==
    /\ syncLog # NoValue
    /\ syncLog.reader = "sync_to_db"
    /\ \E o \in syncLog.reads :
          /\ syncLog.listed[o.code] = 1
          /\ o.nwrites = 2
          /\ pollLog.written[o.code][1].snap # pollLog.written[o.code][2].snap
          /\ o.value = pollLog.written[o.code][2].snap

(***************************************************************************)
(* Reconciliation ticks over arbitrary cached values                       *)
(*                                                                         *)
(* Redis is a shared store: what sync_to_db finds under a quote key is a   *)
(* string that json.loads accepts or not, whose object has a time or not,  *)
(* and whose fields float() accepts or not.  A field is a token as in the  *)
(* intraday records.  The tick is followed command by command (keys, mget, *)
(* upsert); between two commands any value may be written under a key and  *)
(* any key may expire.                                                     *)
(***************************************************************************)
\* the JSON text _push_to_redis writes for a quote of instrument c
RawQuote(c, q) ==
    [ kind |-> "object", code |-> c, time |-> QuoteValues[q].time,
      price |-> Num(QuoteValues[q].price), open |-> Num(QuoteValues[q].open),
      high |-> Num(QuoteValues[q].high), low |-> Num(QuoteValues[q].low),
      volume |-> Num(QuoteValues[q].volume),
      turnover |-> Num(QuoteValues[q].turnover) ]

\* values under the key of instrument c that do not map to a row
RawBroken(c) ==
    { [kind |-> "invalid"],
      [RawQuote(c, "q1") EXCEPT !.time = NoValue],
      [RawQuote(c, "q1") EXCEPT !.price = Text],
      [RawQuote(c, "q2") EXCEPT !.volume = Text] }

RawValues(c) == { RawQuote(c, q) : q \in QuoteIds } \cup RawBroken(c)

\* the body of the loop of sync_to_db (lines 50-82) for one value: the row
\* appended, or skipped
SyncItem(v) ==
    IF v.kind = "invalid" THEN [skipped |-> TRUE]
    ELSE IF v.time = NoValue THEN [skipped |-> TRUE]
    ELSE IF \E tok \in {v.open, v.high, v.low, v.price, v.volume, v.turnover} : ~IsNum(tok)
         THEN [skipped |-> TRUE]
         ELSE [ skipped |-> FALSE,
                item |-> ToDailyBar([ time |-> v.time, code |-> v.code,
                                      open |-> v.open.v, high |-> v.high.v,
                                      low |-> v.low.v, price |-> v.price.v,
                                      volume |-> v.volume.v,
                                      turnover |-> v.turnover.v ]) ]

\* kline_data of sync_to_db: the rows of the values that map
SyncRows(values) ==
    { SyncItem(v).item : v \in { w \in values : ~SyncItem(w).skipped } }

\* rows that may be in the table before the first tick
OldRows == { {}, { ToDailyBar(SinaItem(Universe[1], "q1")) } }

InitSync ==
    /\ CodeIdle /\ MinuteIdle /\ FallbackIdle /\ WatchIdle
    /\ bars \in OldRows
    /\ latestUpsert = None
    /\ overwritten = {}
    /\ upsertCall = NoValue
    /\ stocks = {}
    /\ storeJob = NoValue
    /\ cache \in [CacheCodes -> {NoValue} \cup UNION { RawValues(c) : c \in CacheCodes }]
    /\ \A c \in CacheCodes : cache[c] # NoValue /\ cache[c].kind = "object"
                                => cache[c].code = c
    /\ age = None
    /\ polling = FALSE
    /\ reconciling = TRUE
    /\ syncKeys = NoSync
    /\ pollLog = NoValue
    /\ syncLog = NoValue
    /\ sinceSync = 0

\* some process sets the string under the key of instrument c
RawWrite(c, v) ==
    /\ cache[c] # v
    /\ cache' = [cache EXCEPT ![c] = v]
    /\ syncLog' = NoValue
    /\ UNCHANGED <<age, bars, polling, reconciling, syncKeys, pollLog, notPipeVars>>

\* the key of instrument c expires
RawExpire(c) ==
    /\ cache[c] # NoValue
    /\ cache' = [cache EXCEPT ![c] = NoValue]
    /\ syncLog' = NoValue
    /\ UNCHANGED <<age, bars, polling, reconciling, syncKeys, pollLog, notPipeVars>>

\* sync_to_db, lines 47-85, over the strings as they are: one mget of the
\* enumerated keys and the loop over the values; with no row the tick ends
SyncMgetRaw ==
    LET values     == { cache[c] : c \in syncKeys.keys \cap LiveKeys }
        kline_data == SetToSeq(SyncRows(values))
        gone       == syncKeys.keys \ LiveKeys
    IN
    /\ reconciling
    /\ syncKeys.busy
    /\ ~Fetched
    /\ IF kline_data = <<>>
       THEN /\ syncKeys' = NoSync
            /\ syncLog' = [ read |-> values, wrote |-> FALSE, empty |-> FALSE,
                            keys |-> syncKeys.keys, gone |-> gone,
                            logged |-> <<>>, dbOk |-> TRUE ]
       ELSE /\ syncKeys' = [ busy |-> TRUE, keys |-> syncKeys.keys,
                             values |-> values, kline_data |-> kline_data,
                             gone |-> gone ]
            /\ syncLog' = NoValue
    /\ UNCHANGED <<cache, age, bars, polling, reconciling, pollLog, notPipeVars>>

\* the loop of PersistenceService.run, command by command, and the other
\* clients of Redis
NextSync ==
    \/ SyncEnumerate(TRUE)
    \/ SyncMgetRaw
    \/ \E dbOk \in BOOLEAN : SyncUpsert(dbOk)
    \/ \E c \in CacheCodes : \E v \in RawValues(c) : RawWrite(c, v)
    \/ \E c \in CacheCodes : RawExpire(c)

SpecSync == InitSync /\ [][NextSync]_vars

\* the values a tick that has ended had read that do not map to a row, and
\* those that do
Unmappable == { v \in syncLog.read : SyncItem(v).skipped }
Mappable   == { v \in syncLog.read : ~SyncItem(v).skipped }

\* a step that ends a tick that had read values
SyncTickEnds == syncLog' # NoValue /\ ~syncLog'.empty

\* C15: a value that cannot be parsed or mapped is skipped and counted, and
\* every valid quote of the tick is upserted: after a committed
\* tick the rows of all valid quotes read are in the table and the tick
\* reports, after the number of rows it wrote, the number of values it
\* skipped.
C15_SkippedAndCounted ==
    (syncLog # NoValue /\ syncLog.wrote)
        => /\ \A v \in Mappable : SyncItem(v).item \in bars
           /\ Unmappable # {}
                 => \E i \in 2..Len(syncLog.logged) :
                       syncLog.logged[i] = Cardinality(Unmappable)

\* what holds: a value that cannot be parsed or mapped is skipped without
\* ending the tick, without a row of its own and without being counted: after
\* a committed tick the
\* rows of all valid quotes read are in the table, nothing else was added,
\* and the tick reports the number of rows written only; a tick that read a
\* valid quote commits whenever the database accepts the statement, and one
\* that does not commit leaves the table as it was.
C15_SkippedNotFatal ==
    /\ []( (syncLog # NoValue /\ ~syncLog.empty)
             => /\ syncLog.wrote
                     => /\ \A v \in Mappable : SyncItem(v).item \in bars
                        /\ syncLog.logged = << Cardinality(Mappable) >>
                /\ (Mappable # {} /\ syncLog.dbOk) => syncLog.wrote )
    /\ [][ SyncTickEnds
             => /\ bars' \subseteq bars \cup { SyncItem(v).item :
                                   v \in { w \in syncLog'.read : ~SyncItem(w).skipped } }
                /\ (~syncLog'.wrote) => bars' = bars ]_vars

(***************************************************************************)
(* Watchlist manager                                                       *)
(*                                                                         *)
(* wlDb is the set of codes of the user_watchlist table, wlCache the       *)
(* members of the Redis set user:watchlist.  The pages of the dashboard    *)
(* (one thread per browser session) and the scheduler process call the     *)
(* manager; a call is a sequence of round trips to the database and to     *)
(* Redis, it holds no lock, and the round trips of the calls of different  *)
(* sessions interleave freely.  Every round trip is made with its store    *)
(* available or not (dbOk, redisOk).  wlProc holds, per session, the call  *)
(* in flight: where it is, what it has read, the commands it has issued,   *)
(* and whether any command of another session fell into it (alone, with    *)
(* the stores as they were when it began, db0 and cache0).  wlLast is the  *)
(* call that returned in the last step.                                    *)
(***************************************************************************)
WatchCodes == {"600001.SH", "000001.SZ"}

\* the threads of control that call the manager
Sessions == {"s1", "s2"}

\* crud.add_watchlist_item: insert, on conflict do nothing; False on failure
add_watchlist_item(db, code, dbOk) ==
    IF dbOk THEN [db |-> db \cup {code}, ok |-> TRUE]
    ELSE [db |-> db, ok |-> FALSE]

\* crud.remove_watchlist_item: delete; False on failure
remove_watchlist_item(db, code, dbOk) ==
    IF dbOk THEN [db |-> db \ {code}, ok |-> TRUE]
    ELSE [db |-> db, ok |-> FALSE]

\* crud.get_watchlist_items: all rows; [] on failure
get_watchlist_items(db, dbOk) == IF dbOk THEN db ELSE {}

\* redis sadd and srem of the key user:watchlist; an exception changes nothing
sadd(members, codes, redisOk) == IF redisOk THEN members \cup codes ELSE members

srem(members, code, redisOk) == IF redisOk THEN members \ {code} ELSE members

\* a plausible slip: the table's codes are added to the set without the delete
pipeline_additive(members, codes, redisOk) ==
    IF redisOk THEN members \cup codes ELSE members

\* _sync_from_db, lines 31-41: delete and sadd in one MULTI/EXEC, or the
\* delete alone when no row was read
pipeline_delete_sadd(members, codes, redisOk) ==
    IF redisOk THEN codes ELSE members

\* a plausible slip: the Redis set is written whatever the insert returned
not_success_ignored(success) == FALSE

\* add_stock, lines 59-61: `if not success: return False`
not_success(success) == ~success

\* a plausible slip: the Redis set is returned as it is, empty or not
members_returned_always(members) == TRUE

\* get_watchlist, lines 105-106: `if members: return members`
members_returned(members) == members # {}

\* a plausible slip: the rows read from the table are not written back
backfill_skipped(members, codes, redisOk) == members

\* get_watchlist, line 117: the codes read are written back with sadd
backfill(members, codes, redisOk) == sadd(members, codes, redisOk)

\* WatchlistManager._sync_from_db with no command of another session between
\* its round trips: the members of the Redis set afterwards
sync_from_db(db, members, dbOk, redisOk) ==
    pipeline_delete_sadd(members, get_watchlist_items(db, dbOk), redisOk)

\* WatchlistManager.get_watchlist with no command of another session between
\* its round trips: the Redis set if it has members, else the rows of the
\* table, written back to Redis; set() on any exception
get_watchlist(db, members, dbOk, redisOk) ==
    IF ~redisOk THEN [members |-> members, result |-> {}]
    ELSE IF members_returned(members) THEN [members |-> members, result |-> members]
    ELSE LET codes == get_watchlist_items(db, dbOk)
         IN  IF codes # {}
             THEN [members |-> backfill(members, codes, TRUE), result |-> codes]
             ELSE [members |-> members, result |-> {}]

\* WatchlistManager.is_in_watchlist: sismember; False on any exception
is_in_watchlist(members, stock_code, redisOk) ==
    IF redisOk THEN stock_code \in members ELSE FALSE

\* no call in flight.  once: the session makes one call and stops
IdleCall ==
    [ pc |-> "idle", op |-> "", code |-> "", codes |-> {}, cmds |-> <<>>,
      dbOk |-> TRUE, redisOk |-> TRUE, alone |-> TRUE, fresh |-> "no",
      db0 |-> {}, cache0 |-> {}, once |-> FALSE ]

\* no other session has a call in flight
Quiet(s) == \A t \in Sessions \ {s} : wlProc[t].pc \in {"idle", "done"}

\* session s enters a call
Begin(s, op, code) ==
    [ wlProc[s] EXCEPT !.pc = "begun", !.op = op, !.code = code,
                       !.alone = Quiet(s), !.fresh = wlFresh,
                       !.db0 = IF Quiet(s) THEN wlDb ELSE {},
                       !.cache0 = IF Quiet(s) THEN wlCache ELSE {} ]

\* a command of another session, or the loss of the set, fell into the call
Overlapped(call) ==
    IF call.pc \in {"idle", "done"} THEN call
    ELSE [call EXCEPT !.alone = FALSE, !.db0 = {}, !.cache0 = {}]

\* the call has issued one more command
Issued(call, cmd, dbOk, redisOk) ==
    [ call EXCEPT !.cmds = Append(@, cmd),
                  !.dbOk = @ /\ dbOk, !.redisOk = @ /\ redisOk ]

\* the call of session s goes on to its next round trip
Goes(s, call, pc) ==
    /\ wlProc' = [t \in Sessions |->
                    IF t = s THEN [call EXCEPT !.pc = pc] ELSE Overlapped(wlProc[t])]
    /\ wlLast' = NoValue

\* the call of session s returns
Returns(s, call, ok, result) ==
    /\ wlProc' = [t \in Sessions |->
                    IF t # s THEN Overlapped(wlProc[t])
                    ELSE IF call.once THEN [call EXCEPT !.pc = "done"]
                    ELSE IdleCall]
    /\ wlLast' = [ op |-> call.op, code |-> call.code, ok |-> ok, result |-> result,
                   cmds |-> call.cmds, dbOk |-> call.dbOk, redisOk |-> call.redisOk,
                   fresh |-> call.fresh, alone |-> call.alone,
                   db0 |-> call.db0, cache0 |-> call.cache0 ]

AllIdle == \A s \in Sessions : wlProc[s].pc \in {"idle", "done"}

InitWatch ==
    /\ CodeIdle /\ MinuteIdle /\ FallbackIdle /\ BarsIdle /\ PipeIdle
    /\ wlDb = {}
    /\ wlCache = {}
    /\ acked = {}
    /\ wlLast = NoValue
    /\ wlFresh = "no"
    /\ wlProc = [s \in Sessions |-> IdleCall]

notWatchVars == <<codeVars, minuteVars, fbVars, bars, barsHist, pipeVars>>

\* add_stock, lines 51-64: an empty code returns False; else the row is
\* inserted and committed, and a failed insert returns False
AddStockInsert(s, stock_code, dbOk) ==
    LET r    == add_watchlist_item(wlDb, stock_code, dbOk)
        call == Issued(Begin(s, "add", stock_code), "insert", dbOk, TRUE)
    IN
    /\ wlProc[s].pc = "idle"
    /\ wlFresh' = "no"
    /\ IF stock_code = ""
       THEN /\ Returns(s, Begin(s, "add", stock_code), FALSE, {})
            /\ UNCHANGED <<wlDb, acked>>
       ELSE /\ wlDb' = r.db
            /\ acked' = IF r.ok THEN acked \cup {stock_code} ELSE acked
            /\ IF not_success(r.ok)
               THEN Returns(s, call, FALSE, {})
               ELSE Goes(s, call, "inserted")
    /\ UNCHANGED <<wlCache, notWatchVars>>

\* add_stock, lines 67-75: sadd; True whether or not Redis was reached
AddStockSadd(s, redisOk) ==
    /\ wlProc[s].pc = "inserted"
    /\ wlCache' = sadd(wlCache, {wlProc[s].code}, redisOk)
    /\ wlFresh' = "no"
    /\ Returns(s, Issued(wlProc[s], "sadd", TRUE, redisOk), TRUE, {})
    /\ UNCHANGED <<wlDb, acked, notWatchVars>>

\* remove_stock, lines 82-87: the row is deleted and the delete committed; the
\* result of crud.remove_watchlist_item is not looked at
RemoveStockDelete(s, stock_code, dbOk) ==
    /\ wlProc[s].pc = "idle"
    /\ wlDb' = remove_watchlist_item(wlDb, stock_code, dbOk).db
    /\ acked' = acked \ {stock_code}
    /\ wlFresh' = "no"
    /\ Goes(s, Issued(Begin(s, "remove", stock_code), "delete", dbOk, TRUE), "deleted")
    /\ UNCHANGED <<wlCache, notWatchVars>>

\* remove_stock, lines 90-96: srem; True whether or not Redis was reached
RemoveStockSrem(s, redisOk) ==
    /\ wlProc[s].pc = "deleted"
    /\ wlCache' = srem(wlCache, wlProc[s].code, redisOk)
    /\ wlFresh' = "no"
    /\ Returns(s, Issued(wlProc[s], "srem", TRUE, redisOk), TRUE, {})
    /\ UNCHANGED <<wlDb, acked, notWatchVars>>

\* get_watchlist, lines 104-106: smembers; a set with members is returned,
\* set() when Redis cannot be reached
GetWatchlistSmembers(s, redisOk) ==
    LET call == Issued(Begin(s, "get", ""), "smembers", TRUE, redisOk) IN
    /\ wlProc[s].pc = "idle"
    /\ wlFresh' = "no"
    /\ IF ~redisOk THEN Returns(s, call, TRUE, {})
       ELSE IF members_returned(wlCache) THEN Returns(s, call, TRUE, wlCache)
       ELSE Goes(s, call, "empty")
    /\ UNCHANGED <<wlDb, wlCache, acked, notWatchVars>>

\* get_watchlist, lines 111-120: the rows of the table are read; with no row
\* set() is returned
GetWatchlistSelect(s, dbOk) ==
    LET codes == get_watchlist_items(wlDb, dbOk)
        call  == [Issued(wlProc[s], "select", dbOk, TRUE) EXCEPT !.codes = codes]
    IN
    /\ wlProc[s].pc = "empty"
    /\ wlFresh' = "no"
    /\ IF codes = {} THEN Returns(s, call, TRUE, {})
       ELSE Goes(s, call, "read")
    /\ UNCHANGED <<wlDb, wlCache, acked, notWatchVars>>

\* get_watchlist, lines 117-118 and 122-124: the codes read are written back
\* and returned; set() when Redis cannot be reached
GetWatchlistBackfill(s, redisOk) ==
    /\ wlProc[s].pc = "read"
    /\ wlCache' = backfill(wlCache, wlProc[s].codes, redisOk)
    /\ wlFresh' = "no"
    /\ Returns(s, Issued(wlProc[s], "sadd", TRUE, redisOk), TRUE,
               IF redisOk THEN wlProc[s].codes ELSE {})
    /\ UNCHANGED <<wlDb, acked, notWatchVars>>

\* WatchlistManager() of a process that starts: _sync_from_db, line 28, the
\* rows of the table are read; [] when the database cannot be reached
ConstructSelect(s, dbOk) ==
    LET codes == get_watchlist_items(wlDb, dbOk)
        call  == [Issued(Begin(s, "sync", ""), "select", dbOk, TRUE) EXCEPT !.codes = codes]
    IN
    /\ wlProc[s].pc = "idle"
    /\ wlFresh' = IF Quiet(s) THEN wlFresh ELSE "no"
    /\ Goes(s, call, "selected")
    /\ UNCHANGED <<wlDb, wlCache, acked, notWatchVars>>

\* _sync_from_db, lines 31-45: the set is replaced by the codes read; an
\* exception of Redis is logged and the construction returns
ConstructReplace(s, redisOk) ==
    /\ wlProc[s].pc = "selected"
    /\ wlCache' = pipeline_delete_sadd(wlCache, wlProc[s].codes, redisOk)
    /\ wlFresh' = IF ~(wlProc[s].alone /\ Quiet(s)) THEN "no"
                  ELSE IF wlFresh \in {"lost", "restarted"} THEN "restarted"
                  ELSE "synced"
    /\ Returns(s, Issued(wlProc[s], "replace", TRUE, redisOk), TRUE, wlProc[s].codes)
    /\ UNCHANGED <<wlDb, acked, notWatchVars>>

\* is_in_watchlist: one sismember
IsInWatchlist(s, stock_code, redisOk) ==
    /\ wlProc[s].pc = "idle"
    /\ wlFresh' = "no"
    /\ Returns(s, Issued(Begin(s, "isin", stock_code), "sismember", TRUE, redisOk),
               is_in_watchlist(wlCache, stock_code, redisOk), {})
    /\ UNCHANGED <<wlDb, wlCache, acked, notWatchVars>>

\* Redis loses the set user:watchlist (flush, eviction, a restart of the
\* server).  wlFresh: "lost" after a loss while no call was in flight,
\* "synced" after a construction no other command fell into, "restarted"
\* after both with no other call since, "no" otherwise.
CacheLost ==
    /\ wlCache # {}
    /\ wlCache' = {}
    /\ wlFresh' = IF ~AllIdle THEN "no"
                  ELSE IF wlFresh \in {"synced", "restarted"} THEN "restarted"
                  ELSE "lost"
    /\ wlProc' = [t \in Sessions |-> Overlapped(wlProc[t])]
    /\ wlLast' = NoValue
    /\ UNCHANGED <<wlDb, acked, notWatchVars>>

\* the calls of the pages, the construction of a manager by a process that
\* starts, and the loss of the set
NextWatch ==
    \/ \E s \in Sessions, c \in WatchCodes \cup {""}, dbOk \in BOOLEAN :
          AddStockInsert(s, c, dbOk)
    \/ \E s \in Sessions, redisOk \in BOOLEAN : AddStockSadd(s, redisOk)
    \/ \E s \in Sessions, c \in WatchCodes, dbOk \in BOOLEAN :
          RemoveStockDelete(s, c, dbOk)
    \/ \E s \in Sessions, redisOk \in BOOLEAN : RemoveStockSrem(s, redisOk)
    \/ \E s \in Sessions, redisOk \in BOOLEAN : GetWatchlistSmembers(s, redisOk)
    \/ \E s \in Sessions, dbOk \in BOOLEAN : GetWatchlistSelect(s, dbOk)
    \/ \E s \in Sessions, redisOk \in BOOLEAN : GetWatchlistBackfill(s, redisOk)
    \/ \E s \in Sessions, dbOk \in BOOLEAN : ConstructSelect(s, dbOk)
    \/ \E s \in Sessions, redisOk \in BOOLEAN : ConstructReplace(s, redisOk)
    \/ CacheLost

SpecWatch == InitWatch /\ [][NextWatch]_vars

(***************************************************************************)
(* Claims about the watchlist                                              *)
(*                                                                         *)
(* A claim about what one call does is stated for the calls no command of  *)
(* another session fell into (wlLast.alone); what interleaved calls leave  *)
(* behind is the subject of C23, C25 and C26.                              *)
(***************************************************************************)

\* a call of kind op has just returned
CallReturned(op) == wlLast # NoValue /\ wlLast.op = op

\* C1: when get_watchlist is the first call after a restart in which Redis
\* lost its set, no other call overlaps it, and it reaches Redis and the
\* database, the set it returns contains every code whose insert by add_stock
\* had succeeded (and that was not removed afterwards), whether the startup
\* resync refilled the set or get_watchlist read the table itself.
C1_AddSurvivesRestart ==
    (CallReturned("get") /\ wlLast.fresh = "restarted" /\ wlLast.alone
        /\ wlLast.dbOk /\ wlLast.redisOk)
        => acked \subseteq wlLast.result

\* such a call that returned an added code
C1_Witness ==
    /\ CallReturned("get")
    /\ wlLast.fresh = "restarted"
    /\ wlLast.alone
    /\ wlLast.dbOk /\ wlLast.redisOk
    /\ acked # {}
    /\ acked \subseteq wlLast.result

\* C11: add_stock issues the insert before the sadd, and the sadd only after
\* an insert that succeeded: a call whose insert failed returns False having
\* issued no Redis command, and the step in which it returns leaves the table
\* and the Redis set as they were; a call that returned True issued the
\* insert, then the sadd.  In a call no other command fell into, whatever
\* the Redis set gained is in the table, and nothing left the set.
C11_AddWritesTableFirst ==
    /\ [](CallReturned("add")
            => /\ (~wlLast.dbOk) => (~wlLast.ok /\ wlLast.cmds = <<"insert">>)
               /\ wlLast.ok => (wlLast.dbOk /\ wlLast.cmds = <<"insert", "sadd">>)
               /\ wlLast.alone
                    => /\ (wlCache \ wlLast.cache0) \subseteq wlDb
                       /\ wlLast.cache0 \subseteq wlCache
                       /\ wlLast.ok => wlLast.code \in wlDb
                       /\ (~wlLast.dbOk) => (wlCache = wlLast.cache0 /\ wlDb = wlLast.db0))
    /\ [][ (wlLast' # NoValue /\ wlLast'.op = "add" /\ ~wlLast'.dbOk)
             => (wlCache' = wlCache /\ wlDb' = wlDb) ]_vars

\* an add_stock whose insert failed: False, and the code is in neither store
C11_Witness ==
    /\ CallReturned("add")
    /\ wlLast.code # ""
    /\ ~wlLast.dbOk
    /\ ~wlLast.ok
    /\ wlLast.alone
    /\ wlLast.code \notin wlCache
    /\ wlLast.code \notin wlDb

\* C12: a get_watchlist no other command fell into, whose Redis commands
\* succeed: if it finds the set empty while the table (which it reaches)
\* holds a non-empty set S, it returns S and leaves the Redis set equal to S;
\* if it finds the Redis set non-empty it returns it having issued smembers
\* only, and both stores are as they were.  Its outcome is that of
\* get_watchlist as a function of the stores.
C12_ReadRepairOnEmptyCache ==
    (CallReturned("get") /\ wlLast.alone)
        => /\ wlLast.result
                = get_watchlist(wlLast.db0, wlLast.cache0, wlLast.dbOk, wlLast.redisOk).result
           /\ wlCache
                = get_watchlist(wlLast.db0, wlLast.cache0, wlLast.dbOk, wlLast.redisOk).members
           /\ wlDb = wlLast.db0
           /\ (wlLast.redisOk /\ wlLast.cache0 = {} /\ wlLast.db0 # {} /\ wlLast.dbOk)
                 => /\ wlLast.result = wlLast.db0
                    /\ wlCache = wlLast.db0
                    /\ wlLast.cmds = <<"smembers", "select", "sadd">>
           /\ (wlLast.redisOk /\ wlLast.cache0 # {})
                 => /\ wlLast.result = wlLast.cache0
                    /\ wlCache = wlLast.cache0
                    /\ wlLast.cmds = <<"smembers">>

\* a get_watchlist that found the set empty, read the table and wrote it back
C12_Witness ==
    /\ CallReturned("get")
    /\ wlLast.alone
    /\ wlLast.dbOk /\ wlLast.redisOk
    /\ wlLast.cache0 = {}
    /\ wlLast.result # {}
    /\ wlLast.result = wlDb
    /\ wlCache = wlDb

\* C13: when the construction of a manager returns, having reached the
\* database and Redis with no command of another session between its two
\* round trips, the Redis set equals the table's set of codes, whatever the
\* set held before.
C13_ConstructionResyncsCache ==
    /\ \A before \in SUBSET WatchCodes : sync_from_db(wlDb, before, TRUE, TRUE) = wlDb
    /\ (CallReturned("sync") /\ wlLast.alone /\ wlLast.dbOk /\ wlLast.redisOk)
          => /\ wlCache = wlDb
             /\ wlDb = wlLast.db0
             /\ wlLast.cmds = <<"select", "replace">>

\* a construction that found in the set a code the table did not hold, and
\* not a code the table held
C13_Witness ==
    /\ CallReturned("sync")
    /\ wlLast.alone
    /\ wlLast.dbOk /\ wlLast.redisOk
    /\ wlLast.cache0 \ wlLast.db0 # {}
    /\ wlLast.db0 \ wlLast.cache0 # {}
    /\ wlCache = wlDb

\* C29: a manager constructed while the table cannot be read leaves the Redis
\* set as it was.
C29_FailedResyncKeepsCache ==
    (CallReturned("sync") /\ wlLast.alone /\ ~wlLast.dbOk)
        => wlCache = wlLast.cache0

\* what holds: the construction does not fail, and with the table unreadable
\* and Redis reached the set is deleted
C29_FailedResyncClearsCache ==
    (CallReturned("sync") /\ wlLast.alone /\ ~wlLast.dbOk)
        => wlCache = (IF wlLast.redisOk THEN {} ELSE wlLast.cache0)

(***************************************************************************)
(* The manager kept running                                                *)
(*                                                                         *)
(* One manager serves add_stock, remove_stock, get_watchlist and           *)
(* is_in_watchlist to the sessions; any round trip may find the database   *)
(* or Redis unreachable, and Redis may lose the set (flush, eviction,      *)
(* restart of the server) while the manager runs.  The manager is not      *)
(* constructed again.                                                      *)
(***************************************************************************)
NextWatchRunning ==
    \/ \E s \in Sessions, c \in WatchCodes \cup {""}, dbOk \in BOOLEAN :
          AddStockInsert(s, c, dbOk)
    \/ \E s \in Sessions, redisOk \in BOOLEAN : AddStockSadd(s, redisOk)
    \/ \E s \in Sessions, c \in WatchCodes, dbOk \in BOOLEAN :
          RemoveStockDelete(s, c, dbOk)
    \/ \E s \in Sessions, redisOk \in BOOLEAN : RemoveStockSrem(s, redisOk)
    \/ \E s \in Sessions, redisOk \in BOOLEAN : GetWatchlistSmembers(s, redisOk)
    \/ \E s \in Sessions, dbOk \in BOOLEAN : GetWatchlistSelect(s, dbOk)
    \/ \E s \in Sessions, redisOk \in BOOLEAN : GetWatchlistBackfill(s, redisOk)
    \/ \E s \in Sessions, c \in WatchCodes, redisOk \in BOOLEAN :
          IsInWatchlist(s, c, redisOk)
    \/ CacheLost

SpecWatchRunning == InitWatch /\ [][NextWatchRunning]_vars

\* C22: a get_watchlist that reaches Redis and the database, made while the
\* manager keeps running and no other call is in flight, returns the set of
\* codes of the table.
C22_GetReturnsTable ==
    (CallReturned("get") /\ wlLast.alone /\ wlLast.dbOk /\ wlLast.redisOk)
        => wlLast.result = wlDb

\* what holds: such a call returns the table's codes when it finds the Redis
\* set empty, and the Redis set as it is otherwise
C22_GetReturnsCacheUnlessEmpty ==
    (CallReturned("get") /\ wlLast.alone /\ wlLast.dbOk /\ wlLast.redisOk)
        => wlLast.result = (IF wlLast.cache0 = {} THEN wlLast.db0 ELSE wlLast.cache0)

\* C24: a remove_stock whose delete from the table failed returns False and
\* leaves the Redis set as it was, and a remove_stock that returned True has
\* left the table without the code (no other call being in flight).
C24_FailedDeleteReturnsFalse ==
    (CallReturned("remove") /\ wlLast.alone)
        => /\ (~wlLast.dbOk) => (~wlLast.ok /\ wlCache = wlLast.cache0)
           /\ wlLast.ok => wlLast.code \notin wlDb

\* what holds: remove_stock returns True whatever the delete did, having
\* issued the delete and then the srem; with no other command in between it
\* takes the code out of the Redis set when Redis is reached, and out of the
\* table when the delete commits
C24_RemoveAlwaysTrue ==
    CallReturned("remove")
        => /\ wlLast.ok
           /\ wlLast.cmds = <<"delete", "srem">>
           /\ wlLast.alone
                => /\ wlCache = (IF wlLast.redisOk THEN wlLast.cache0 \ {wlLast.code}
                                 ELSE wlLast.cache0)
                   /\ wlDb = (IF wlLast.dbOk THEN wlLast.db0 \ {wlLast.code}
                              ELSE wlLast.db0)

\* C30: is_in_watchlist(X) is True exactly when X is in the set get_watchlist
\* would return in the same state (both calls reaching their stores).
C30_MembershipAgreesWithGet ==
    \A X \in WatchCodes :
        is_in_watchlist(wlCache, X, TRUE)
            <=> X \in get_watchlist(wlDb, wlCache, TRUE, TRUE).result

\* what holds: the two agree whenever the Redis set is not empty or the table
\* is empty
C30_AgreesWhenCacheWarm ==
    (wlCache # {} \/ wlDb = {}) =>
        \A X \in WatchCodes :
            is_in_watchlist(wlCache, X, TRUE)
                <=> X \in get_watchlist(wlDb, wlCache, TRUE, TRUE).result

(***************************************************************************)
(* One manager, every round trip reaching its store                        *)
(*                                                                         *)
(* The process starts over a table with any codes and a Redis set with any *)
(* members; the manager is constructed (its resync runs) and then serves   *)
(* the calls of the sessions.  No round trip fails and Redis keeps its     *)
(* set.                                                                    *)
(***************************************************************************)
\* the codes the calls are made with
HealthyCodes == WatchCodes \cup {"600002.SH"}

InitWatchHealthy ==
    /\ CodeIdle /\ MinuteIdle /\ FallbackIdle /\ BarsIdle /\ PipeIdle
    /\ wlDb \in SUBSET HealthyCodes
    /\ \E before \in SUBSET HealthyCodes : wlCache = sync_from_db(wlDb, before, TRUE, TRUE)
    /\ acked = {}
    /\ wlLast = NoValue
    /\ wlFresh = "synced"
    /\ wlProc = [s \in Sessions |-> IdleCall]

NextWatchHealthy ==
    \/ \E s \in Sessions, c \in HealthyCodes \cup {""} : AddStockInsert(s, c, TRUE)
    \/ \E s \in Sessions : AddStockSadd(s, TRUE)
    \/ \E s \in Sessions, c \in HealthyCodes : RemoveStockDelete(s, c, TRUE)
    \/ \E s \in Sessions : RemoveStockSrem(s, TRUE)
    \/ \E s \in Sessions : GetWatchlistSmembers(s, TRUE)
    \/ \E s \in Sessions : GetWatchlistSelect(s, TRUE)
    \/ \E s \in Sessions : GetWatchlistBackfill(s, TRUE)
    \/ \E s \in Sessions, c \in HealthyCodes : IsInWatchlist(s, c, TRUE)

SpecWatchHealthy == InitWatchHealthy /\ [][NextWatchHealthy]_vars

\* C23: with one manager, no store failure and no loss of the Redis set, the
\* Redis set equals the table's set of codes after the construction and
\* whenever an add_stock, remove_stock or get_watchlist has returned and no
\* call is in flight.
C23_CacheEqualsTable ==
    /\ (wlLast = NoValue /\ AllIdle /\ wlFresh = "synced") => wlCache = wlDb
    /\ (wlLast # NoValue /\ wlLast.op \in {"add", "remove", "get"} /\ AllIdle)
          => wlCache = wlDb

\* what holds: a call that begins with the Redis set equal to the table and
\* into which no command of another session falls returns with the two equal
C23_EqualAfterCallAlone ==
    (wlLast # NoValue /\ wlLast.alone /\ wlLast.cache0 = wlLast.db0)
        => /\ wlCache = wlDb
           /\ CallReturned("get") => wlLast.result = wlDb
           /\ (CallReturned("add") /\ wlLast.code # "") => wlLast.code \in wlCache
           /\ CallReturned("remove") => wlLast.code \notin wlCache

(***************************************************************************)
(* Two calls, interleaved in every way                                     *)
(*                                                                         *)
(* The dashboard process and the scheduler process each construct a        *)
(* manager over the same table and the same Redis set.  Each of two        *)
(* sessions makes one call (a construction's resync, an add_stock, a       *)
(* remove_stock or a get_watchlist) and stops; the round trips of the two  *)
(* calls interleave freely and every one reaches its store.  A session     *)
(* that has made its call keeps what the call was and what it read.        *)
(***************************************************************************)
InitWatchRace ==
    /\ CodeIdle /\ MinuteIdle /\ FallbackIdle /\ BarsIdle /\ PipeIdle
    /\ wlDb \in SUBSET WatchCodes
    /\ wlCache \in {wlDb, {}}
    /\ acked = {}
    /\ wlLast = NoValue
    /\ wlFresh = "no"
    /\ wlProc = [s \in Sessions |-> [IdleCall EXCEPT !.once = TRUE]]

NextWatchRace ==
    \/ \E s \in Sessions : ConstructSelect(s, TRUE)
    \/ \E s \in Sessions : ConstructReplace(s, TRUE)
    \/ \E s \in Sessions, c \in WatchCodes : AddStockInsert(s, c, TRUE)
    \/ \E s \in Sessions : AddStockSadd(s, TRUE)
    \/ \E s \in Sessions, c \in WatchCodes : RemoveStockDelete(s, c, TRUE)
    \/ \E s \in Sessions : RemoveStockSrem(s, TRUE)
    \/ \E s \in Sessions : GetWatchlistSmembers(s, TRUE)
    \/ \E s \in Sessions : GetWatchlistSelect(s, TRUE)
    \/ \E s \in Sessions : GetWatchlistBackfill(s, TRUE)

SpecWatchRace == InitWatchRace /\ [][NextWatchRace]_vars

\* session s has made a call of kind op, and it has returned
Made(s, op) == wlProc[s].pc = "done" /\ wlProc[s].op = op

\* C25: when a construction's resync and an add_stock(X) of another manager
\* have both returned, and no other call ran, X is not in the table without
\* being in the Redis set.
C25_ResyncKeepsConcurrentAdd ==
    \A s \in Sessions, t \in Sessions :
        (Made(s, "sync") /\ Made(t, "add"))
            => ~(wlProc[t].code \in wlDb /\ wlProc[t].code \notin wlCache)

\* what holds: the added code is in the table, and it is in the Redis set
\* unless the resync read the table before the insert and wrote after the sadd
C25_AddReachesTable ==
    \A s \in Sessions, t \in Sessions :
        (Made(s, "sync") /\ Made(t, "add"))
            => /\ wlProc[t].code \in wlDb
               /\ wlProc[t].code \in wlProc[s].codes => wlProc[t].code \in wlCache

\* C26: when a get_watchlist and a remove_stock(X) have both returned, and no
\* other call ran, X is not in the Redis set after its row was deleted.
C26_BackfillKeepsConcurrentRemove ==
    \A s \in Sessions, t \in Sessions :
        (Made(s, "get") /\ Made(t, "remove"))
            => ~(wlProc[t].code \notin wlDb /\ wlProc[t].code \in wlCache)

\* what holds: the row is gone, and the code is in the Redis set afterwards
\* only if get_watchlist had read it from the table and wrote it back
C26_RemoveReachesTable ==
    \A s \in Sessions, t \in Sessions :
        (Made(s, "get") /\ Made(t, "remove"))
            => /\ wlProc[t].code \notin wlDb
               /\ wlProc[t].code \in wlCache => wlProc[t].code \in wlProc[s].codes

(***************************************************************************)
(* The writers of the bars table over several days                         *)
(*                                                                         *)
(* Three operations write stock_daily_kline: the reconciliation upsert     *)
(* (PersistenceService.sync_to_db), the historical bulk save               *)
(* (main_sync.sync_all_stocks_and_kline) and the watchlist daily sync      *)
(* (scheduler.daily_sync_watchlist_job).  They run in three processes and  *)
(* are followed round trip by round trip.  A code is the string the row    *)
(* carries: the quotes and the watchlist spell "600001.SH", the table      *)
(* stocks spells "sh600001".  The calendar advances by days; upsertCall    *)
(* records the current day and the last step.                              *)
(***************************************************************************)
\* INSERT ... ON CONFLICT (time, code) DO NOTHING, row by row: a key that is
\* stored, or that an earlier row of the statement carried, is left alone
RECURSIVE InsertIgnore(_, _)
InsertIgnore(table, rows) ==
    IF rows = <<>> THEN table
    ELSE InsertIgnore(
            IF BarKey(Head(rows)) \in BarKeysOf(table) THEN table
            ELSE table \cup {Head(rows)},
            Tail(rows))

\* crud.bulk_save_daily_kline: the table afterwards and whether the call raised
bulk_save_daily_kline(table, kline_data, dbOk) ==
    IF kline_data = <<>> THEN [table |-> table, raised |-> FALSE]
    ELSE IF ~dbOk THEN [table |-> table, raised |-> TRUE]
    ELSE [table |-> InsertIgnore(table, kline_data), raised |-> FALSE]

\* the code of the quote the reconciler finds in the cache
StoreCode == "600001.SH"

\* the codes update_stock_list_to_db writes to the table stocks
StockListCodes ==
    { CodeText(stock_list_code(SourceRowCode(src))) : src \in {"baostock", "csv"} }

\* what the provider's daily K-line reports for a day: the prices of the
\* first of BarValues, the volume in lots and no turnover (lines 327-335)
KlineFigures ==
    [ open |-> 1000, high |-> 1060, low |-> 990, close |-> 1050,
      volume |-> 10, turnover |-> 0 ]

\* what fetch_stock_daily_kline obtains: figures, or nothing (the request
\* failed or the provider has no data: an empty DataFrame)
KlineResponses == {KlineFigures, NoValue}

BarRow(d, c, v) ==
    [ time |-> Midnight(d), code |-> c, open |-> v.open, high |-> v.high,
      low |-> v.low, close |-> v.close, volume |-> v.volume,
      turnover |-> v.turnover ]

\* the rows of a response for the days from..to, oldest first, each carrying
\* the code as it was passed in (line 341)
RECURSIVE DailyKlineRows(_, _, _, _)
DailyKlineRows(c, from, to, v) ==
    IF from > to THEN <<>>
    ELSE <<BarRow(from, c, v)>> \o DailyKlineRows(c, from + 1, to, v)

Max(a, b) == IF a >= b THEN a ELSE b

\* fetch_stock_daily_kline(stock_code, start_date, end_date) on day today: the
\* rows the provider has (days 1..today) that lie within the dates given
fetch_stock_daily_kline(stock_code, start_date, end_date, today, resp) ==
    IF resp = NoValue THEN <<>>
    ELSE DailyKlineRows(stock_code, Max(1, start_date), Min(end_date, today), resp)

Today == upsertCall.today

StoreCall(op, raised, today) == [op |-> op, raised |-> raised, today |-> today]

\* a job that is not running
JobIdle == [pc |-> "idle", todo |-> {}, codes |-> {}, end_date |-> 0]

DailyJob == storeJob.daily

SaveJob == storeJob.save

\* The processes have run for a while: the watchlist holds any codes and the
\* Redis set is warm or lost, update_stock_list_to_db has filled the table
\* stocks or not, and the bars table is empty.
InitStore ==
    /\ CodeIdle /\ MinuteIdle /\ FallbackIdle /\ PipeIdle
    /\ wlDb \in SUBSET WatchCodes
    /\ wlCache \in {wlDb, {}}
    /\ acked = wlDb
    /\ wlLast = NoValue
    /\ wlFresh = "no"
    /\ wlProc = NoValue
    /\ bars = {}
    /\ latestUpsert = None
    /\ overwritten = {}
    /\ upsertCall = StoreCall("start", FALSE, 1)
    /\ stocks \in SUBSET StockListCodes
    /\ storeJob = [daily |-> JobIdle, save |-> JobIdle]

notStoreVars ==
    <<codeVars, minuteVars, fbVars, pipeVars, latestUpsert, overwritten,
      wlDb, acked, wlLast, wlFresh, wlProc, stocks>>

\* sync_to_db: the upsert of the row built from the cached quote, which
\* carries the date of the last session: today's or, before today's session
\* opens, the day before
ReconcileUpsert(d, v, dbOk) ==
    LET r == bulk_upsert_daily_kline(bars, <<BarRow(d, StoreCode, v)>>, dbOk) IN
    /\ d \in {Today - 1, Today} /\ d >= 1
    /\ bars' = r.table
    /\ upsertCall' = StoreCall("reconcile", r.raised, Today)
    /\ UNCHANGED <<wlCache, storeJob, notStoreVars>>

\* the daily sync enters its loop over the codes get_watchlist returned:
\* end_date is the day of the call (lines 64-68)
DailyLoop(watchlist) ==
    [pc |-> "loop", todo |-> watchlist, codes |-> {}, end_date |-> Today]

\* daily_sync_watchlist_job, line 59: get_watchlist, smembers.  A set with
\* members is the watchlist; when Redis cannot be reached get_watchlist
\* returns set() and the job returns (lines 60-62)
DailySyncSmembers(redisOk) ==
    /\ DailyJob.pc = "idle"
    /\ storeJob' = [storeJob EXCEPT !.daily =
                      IF ~redisOk THEN JobIdle
                      ELSE IF members_returned(wlCache) THEN DailyLoop(wlCache)
                      ELSE [JobIdle EXCEPT !.pc = "empty"]]
    /\ upsertCall' = StoreCall("smembers", FALSE, Today)
    /\ UNCHANGED <<bars, wlCache, notStoreVars>>

\* get_watchlist, lines 111-120: the rows of user_watchlist are read; with no
\* row, or with the database out of reach, get_watchlist returns set() and
\* the job returns
DailySyncSelect(dbOk) ==
    LET codes == get_watchlist_items(wlDb, dbOk) IN
    /\ DailyJob.pc = "empty"
    /\ storeJob' = [storeJob EXCEPT !.daily =
                      IF codes = {} THEN JobIdle
                      ELSE [JobIdle EXCEPT !.pc = "read", !.codes = codes]]
    /\ upsertCall' = StoreCall("select", ~dbOk, Today)
    /\ UNCHANGED <<bars, wlCache, notStoreVars>>

\* get_watchlist, lines 117-118 and 122-124: the codes read are written back
\* and are the watchlist; when Redis cannot be reached get_watchlist returns
\* set() and the job returns
DailySyncBackfill(redisOk) ==
    /\ DailyJob.pc = "read"
    /\ wlCache' = backfill(wlCache, DailyJob.codes, redisOk)
    /\ storeJob' = [storeJob EXCEPT !.daily =
                      IF redisOk THEN DailyLoop(DailyJob.codes) ELSE JobIdle]
    /\ upsertCall' = StoreCall("sadd", ~redisOk, Today)
    /\ UNCHANGED <<bars, notStoreVars>>

\* daily_sync_watchlist_job, lines 70-80: one pass of the loop.  The last
\* days of stock_code are fetched and, unless the DataFrame is empty,
\* upserted; an exception is logged and the loop goes on.  After the last
\* code the job returns.
DailySyncStock(stock_code, resp, dbOk) ==
    LET records == fetch_stock_daily_kline(stock_code,
                       DailyJob.end_date - SyncWindowDays, DailyJob.end_date,
                       Today, resp)
        r       == bulk_upsert_daily_kline(bars, records, dbOk)
        todo    == DailyJob.todo \ {stock_code}
    IN
    /\ DailyJob.pc = "loop"
    /\ stock_code \in DailyJob.todo
    /\ bars' = r.table
    /\ storeJob' = [storeJob EXCEPT !.daily =
                      IF todo = {} THEN JobIdle ELSE [@ EXCEPT !.todo = todo]]
    /\ upsertCall' = StoreCall("daily_sync", r.raised, Today)
    /\ UNCHANGED <<wlCache, notStoreVars>>

\* sync_all_stocks_and_kline, lines 17-20: fetch_all_stock_list reads the
\* table stocks; with no row, or with the database out of reach, the
\* DataFrame is empty and the job returns
HistoricalSaveList(dbOk) ==
    LET stocks_df == IF dbOk THEN stocks ELSE {} IN
    /\ SaveJob.pc = "idle"
    /\ storeJob' = [storeJob EXCEPT !.save =
                      IF stocks_df = {} THEN JobIdle
                      ELSE [JobIdle EXCEPT !.pc = "loop", !.todo = stocks_df]]
    /\ upsertCall' = StoreCall("stock_list", ~dbOk, Today)
    /\ UNCHANGED <<bars, wlCache, notStoreVars>>

\* sync_all_stocks_and_kline, lines 26-51: one pass of the loop.
\* get_or_create_stock finds the row of the code; the whole history of the
\* code is fetched and, unless the DataFrame is empty, saved.  An exception
\* of the database (get_or_create_stock, or bulk_save_daily_kline raising
\* again after its rollback) is caught nowhere: the job ends.
HistoricalSaveStock(stock_code, resp, dbOk) ==
    LET kline_data_list == fetch_stock_daily_kline(stock_code, 1, MaxDay, Today, resp)
        r    == bulk_save_daily_kline(bars, kline_data_list, dbOk)
        todo == SaveJob.todo \ {stock_code}
    IN
    /\ SaveJob.pc = "loop"
    /\ stock_code \in SaveJob.todo
    /\ bars' = r.table
    /\ storeJob' = [storeJob EXCEPT !.save =
                      IF ~dbOk \/ todo = {} THEN JobIdle
                      ELSE [@ EXCEPT !.todo = todo]]
    /\ upsertCall' = StoreCall("save", ~dbOk, Today)
    /\ UNCHANGED <<wlCache, notStoreVars>>

\* the day ends
NextDay ==
    /\ Today < MaxDay
    /\ upsertCall' = StoreCall("midnight", FALSE, Today + 1)
    /\ UNCHANGED <<bars, wlCache, storeJob, notStoreVars>>

NextStore ==
    \/ \E d \in 1..MaxDay, v \in BarValues, dbOk \in BOOLEAN : ReconcileUpsert(d, v, dbOk)
    \/ \E redisOk \in BOOLEAN : DailySyncSmembers(redisOk)
    \/ \E dbOk \in BOOLEAN : DailySyncSelect(dbOk)
    \/ \E redisOk \in BOOLEAN : DailySyncBackfill(redisOk)
    \/ \E stock_code \in WatchCodes, resp \in KlineResponses, dbOk \in BOOLEAN :
          DailySyncStock(stock_code, resp, dbOk)
    \/ \E dbOk \in BOOLEAN : HistoricalSaveList(dbOk)
    \/ \E stock_code \in StockListCodes, resp \in KlineResponses, dbOk \in BOOLEAN :
          HistoricalSaveStock(stock_code, resp, dbOk)
    \/ NextDay

SpecStore == InitStore /\ [][NextStore]_vars

\* C18: no step of the reconciliation upsert, the historical bulk save or the
\* watchlist daily sync, committed or failed, removes a (day, code) key from
\* the table.
C18_BarsNeverDeleted ==
    [][ BarKeysOf(bars) \subseteq BarKeysOf(bars') ]_vars

\* on the second day the upsert of the daily sync failed for a code of the
\* watchlist, and the rows stored before, of both days and of both spellings
\* of a code, are in place
C18_Witness ==
    /\ upsertCall.op = "daily_sync"
    /\ upsertCall.raised
    /\ Today = 2
    /\ \E c \in WatchCodes, t \in StockListCodes :
          {<<Midnight(1), c>>, <<Midnight(2), c>>, <<Midnight(1), t>>}
              \subseteq BarKeysOf(bars)

\* C19: a stored bar whose day has ended is not changed by any later step
C19_FrozenAfterDayEnds ==
    [][ \A r \in bars : r.time.day < Today => r \in bars' ]_vars

\* what holds: the historical bulk save never changes a stored bar, and no
\* operation writes a bar of a day that has not come
C19_SaveKeepsStoredBars ==
    /\ [][ upsertCall'.op = "save" => bars \subseteq bars' ]_vars
    /\ [](\A r \in bars : r.time.day <= Today)

====
